---- MODULE Spec2Model ----
(***************************************************************************)
(* A model of seedir: the synthetic tree (seedir/fakedir.py), the          *)
(* traversal engine FolderStructure (seedir/folderstructure.py), the style *)
(* tokens (seedir/printing.py) and the diagram parser fakedir_fromstring.  *)
(*                                                                         *)
(* Text is modelled as a sequence of characters; a character is a          *)
(* one-character string, except the characters TLA+ strings cannot hold:   *)
(*   "VERT" = U+2502, "TEE" = U+251C, "HORZ" = U+2500, "ELL" = U+2514,     *)
(*   "NL" = newline, "TAB" = tab, "CR" = carriage return,                  *)
(*   "BSL" = backslash, "BTICK" = backtick, "DQ" = double quote.           *)
(* Python's None is the empty tuple <<>>; a value v that may also be None  *)
(* is carried as <<v>>.                                                    *)
(***************************************************************************)
EXTENDS Integers, Sequences, FiniteSets, TLC

VARIABLES
    tree,      \* the FakeItem objects of the tree T: tree[i] is object i, object 1 the head
    pc,        \* position of the driver: "build", "rendered", "parsed", "done",
               \* "sorted", "walked", or "broken" after a RecursionError
    cfg,       \* the FolderStructureArgs built by the last __call__ (None before)
    raises,    \* the adapter's listdir: raises[i] = <<kind>> when listing object i raises
    lines,     \* the lines the last render produced, in order, one record per line
    text,      \* what the last __call__ returned: <<s>>, or None when it raised
    error,     \* the exception the last call propagated: <<kind>>, or None
    ptree,     \* the objects fakedir_fromstring built from text (None before parsing)
    proot,     \* the object fakedir_fromstring returned (0 before parsing)
    text2,     \* render of the parsed tree: <<s>>, or None
    op,        \* the last mutation of the tree: its kind, the object self and the
               \* object other it was called with (0 for None)
    listing,   \* what sort_dir returned for the children of the head (empty before)
    relisting, \* what sort_dir returned for listing under the same arguments
    unfinished, \* INCOMPLETE when the last render returned or raised
    visited    \* the objects the visitor of the last walk_apply was called with, in order

vars == <<tree, pc, cfg, raises, lines, text, error, ptree, proot, text2, op, listing, relisting, unfinished, visited>>

----------------------------------------------------------------------------
(* Bounds of the model *)

\* the objects of a tree that is rendered
MaxNodes == 4

\* the objects of a heap that is mutated
MaxObjects == 3

\* the lines of a diagram that is parsed, and the longest header of a line
MaxLines == 4

MaxIndent == 3

----------------------------------------------------------------------------
(* Python values *)

None == <<>>

Some(v) == <<v>>

IsNone(o) == o = <<>>

Val(o) == o[1]

Min(a, b) == IF a < b THEN a ELSE b

\* [x for x in s if P(x)]
Filt(s, P(_)) == SelectSeq(s, P)

Range(s) == {s[i] : i \in 1..Len(s)}

\* s[:n] and s[n:] for 0 <= n <= len(s)
Take(s, n) == SubSeq(s, 1, n)

Drop(s, n) == SubSeq(s, n + 1, Len(s))

RECURSIVE Concat(_)
\* "".join(parts)
Concat(parts) ==
    IF parts = <<>> THEN <<>> ELSE Head(parts) \o Concat(Tail(parts))

----------------------------------------------------------------------------
(* Characters *)

Lower == {"a","b","c","d","e","f","g","h","i","j","k","l","m",
          "n","o","p","q","r","s","t","u","v","w","x","y","z"}

Upper == {"A","B","C","D","E","F","G","H","I","J","K","L","M",
          "N","O","P","Q","R","S","T","U","V","W","X","Y","Z"}

Digits == {"0","1","2","3","4","5","6","7","8","9"}

\* str.strip() and the regular expression class \s
Whitespace == {" ", "NL", "TAB", "CR"}

\* the separators fakedir_fromstring looks for at the end of a name
Separators == {"/", "BSL"}

\* the characters of the model in code point order (ASCII, then the box characters)
CodeOrder ==
    <<"TAB", "NL", "CR", " ", "!", "#", "$", "%", "&", "'", "(", ")", "*", "+", ",",
      "-", ".", "/", "0","1","2","3","4","5","6","7","8","9", ":", ";", "<", "=",
      ">", "?", "@",
      "A","B","C","D","E","F","G","H","I","J","K","L","M",
      "N","O","P","Q","R","S","T","U","V","W","X","Y","Z",
      "[", "BSL", "]", "^", "_", "BTICK",
      "a","b","c","d","e","f","g","h","i","j","k","l","m",
      "n","o","p","q","r","s","t","u","v","w","x","y","z",
      "{", "|", "}", "~", "HORZ", "VERT", "ELL", "TEE">>

\* ord(c)
Ord(c) == CHOOSE i \in 1..Len(CodeOrder) : CodeOrder[i] = c

\* a < b for two str
StrLess(a, b) ==
    \E i \in 1..(Len(b)) :
        /\ \A j \in 1..(i - 1) : j <= Len(a) /\ a[j] = b[j]
        /\ i - 1 <= Len(a)
        /\ (i > Len(a) \/ Ord(a[i]) < Ord(b[i]))

\* s.strip(): leading and trailing whitespace removed
RECURSIVE LStrip(_)
LStrip(s) == IF s # <<>> /\ Head(s) \in Whitespace THEN LStrip(Tail(s)) ELSE s

RECURSIVE RStrip(_)
RStrip(s) ==
    IF s # <<>> /\ s[Len(s)] \in Whitespace THEN RStrip(Take(s, Len(s) - 1)) ELSE s

Strip(s) == LStrip(RStrip(s))

RECURSIVE Split(_, _)
\* s.split(sep) for a one-character sep
Split(s, sep) ==
    IF \E i \in 1..Len(s) : s[i] = sep
    THEN LET i == CHOOSE k \in 1..Len(s) :
                      s[k] = sep /\ \A j \in 1..(k - 1) : s[j] # sep
         IN <<Take(s, i - 1)>> \o Split(Drop(s, i), sep)
    ELSE <<s>>

DigitChar(d) == CodeOrder[Ord("0") + d]

DigitVal(c) == Ord(c) - Ord("0")

RECURSIVE IntStr(_)
\* '{}'.format(n) for an int n >= 0
IntStr(n) == IF n < 10 THEN <<DigitChar(n)>> ELSE IntStr(n \div 10) \o <<DigitChar(n % 10)>>

RECURSIVE StrInt(_)
\* int(s) for a str of digits
StrInt(s) == IF s = <<>> THEN 0 ELSE 10 * StrInt(Take(s, Len(s) - 1)) + DigitVal(s[Len(s)])

----------------------------------------------------------------------------
(* seedir/printing.py *)

StyleNames == {"lines", "dash", "spaces", "plus", "arrow"}

STYLE_DICT(style) ==
    CASE style = "lines" ->
           [split |-> <<"TEE", "HORZ">>, extend |-> <<"VERT", " ">>, space |-> <<" ", " ">>,
            final |-> <<"ELL", "HORZ">>, folderstart |-> <<>>, filestart |-> <<>>,
            folderend |-> <<"/">>, fileend |-> <<>>]
      [] style = "dash" ->
           [split |-> <<"|", "-">>, extend |-> <<"|", " ">>, space |-> <<" ", " ">>,
            final |-> <<"|", "-">>, folderstart |-> <<>>, filestart |-> <<>>,
            folderend |-> <<"/">>, fileend |-> <<>>]
      [] style = "spaces" ->
           [split |-> <<" ", " ">>, extend |-> <<" ", " ">>, space |-> <<" ", " ">>,
            final |-> <<" ", " ">>, folderstart |-> <<>>, filestart |-> <<>>,
            folderend |-> <<"/">>, fileend |-> <<>>]
      [] style = "plus" ->
           [split |-> <<"+", "-">>, extend |-> <<"|", " ">>, space |-> <<" ", " ">>,
            final |-> <<"+", "-">>, folderstart |-> <<>>, filestart |-> <<>>,
            folderend |-> <<"/">>, fileend |-> <<>>]
      [] style = "arrow" ->
           [split |-> <<" ", " ">>, extend |-> <<" ", " ">>, space |-> <<" ", " ">>,
            final |-> <<" ", " ">>, folderstart |-> <<">">>, filestart |-> <<">">>,
            folderend |-> <<"/">>, fileend |-> <<>>]

Indentable == {"split", "extend", "space", "final"}

TokenKeys == {"extend", "split", "space", "final",
              "folderstart", "filestart", "folderend", "fileend"}

\* get_styleargs raises ValueError for a style that is not in STYLE_DICT
get_styleargs_raises(style) == style \notin StyleNames

\* format_indent raises ValueError for a negative indent (indent is an int here)
format_indent_raises(indent) == indent < 0

RECURSIVE Repeat(_, _)
Repeat(c, n) == IF n <= 0 THEN <<>> ELSE <<c>> \o Repeat(c, n - 1)

\* format_indent: the four structural tokens of style_dict scaled to indent
format_indent(style_dict, indent) ==
    [k \in DOMAIN style_dict |->
        IF k \notin Indentable THEN style_dict[k]
        ELSE IF indent = 0 THEN <<>>
        ELSE IF indent = 1 THEN <<style_dict[k][1]>>
        ELSE IF indent > 2
             THEN style_dict[k] \o Repeat(style_dict[k][Len(style_dict[k])], indent - 2)
             ELSE style_dict[k]]

\* is_match(pattern, string, regex): literal equality, or re.search for a pattern
\* made of ordinary characters with an optional leading "^"
is_match(pattern, string, regex) ==
    IF ~regex THEN pattern = string
    ELSE IF pattern # <<>> /\ Head(pattern) = "^"
         THEN /\ Len(Tail(pattern)) <= Len(string)
              /\ Take(string, Len(pattern) - 1) = Tail(pattern)
         ELSE \E i \in 0..(Len(string) - Len(pattern)) :
                  SubSeq(string, i + 1, i + Len(pattern)) = pattern

----------------------------------------------------------------------------
(* seedir/fakedir.py: FakeItem, FakeFile, FakeDir.                         *)
(* A heap h is the sequence of the objects created so far; an object is    *)
(* named by its index. isdir tells a FakeDir from a FakeFile.              *)

\* the attributes FakeItem.__init__ and FakeDir.__init__ set before the parent is assigned
FakeItem(name, isdir) ==
    [name |-> name, isdir |-> isdir, parent |-> None, depth |-> 0, children |-> <<>>]

\* FakeDir.get_child_names
get_child_names(h, d) == [i \in 1..Len(h[d].children) |-> h[h[d].children[i]].name]

\* list.remove(x): the first occurrence of x removed
RemoveFirst(s, x) ==
    LET i == CHOOSE k \in 1..Len(s) : s[k] = x /\ \A j \in 1..(k - 1) : s[j] # x
    IN Take(s, i - 1) \o Drop(s, i)

\* FakeItem.set_depth
set_depth(h, x) ==
    [h EXCEPT ![x].depth = IF IsNone(h[x].parent) THEN 0 ELSE h[Val(h[x].parent)].depth + 1]

\* the frames a recursion may use before the interpreter raises RecursionError:
\* more than a walk of a heap without a cycle needs
RecursionLimit == MaxNodes + MaxObjects

RECURSIVE walk_set_depth(_, _, _, _)
RECURSIVE walk_set_depth_rest(_, _, _, _)
\* FakeDir.walk_apply(apply_setdepth) from child number k of d on, in frame n:
\* each child, then (for a FakeDir) its own children, in child-list order.
\* The result is the heap and the RecursionError raised (None when none)
walk_set_depth(h, d, k, n) ==
    IF n > RecursionLimit THEN [h |-> h, err |-> Some("RecursionError")]
    ELSE IF k > Len(h[d].children) THEN [h |-> h, err |-> None]
    ELSE IF h[h[d].children[k]].isdir
    THEN walk_set_depth_rest(
             walk_set_depth(set_depth(h, h[d].children[k]), h[d].children[k], 1, n + 1),
             d, k, n)
    ELSE walk_set_depth(set_depth(h, h[d].children[k]), d, k + 1, n)

\* the loop of walk_apply after the walk of child number k returned r
walk_set_depth_rest(r, d, k, n) ==
    IF ~IsNone(r.err) THEN r ELSE walk_set_depth(r.h, d, k + 1, n)

\* FakeDir.set_child_depths
set_child_depths(h, d) == walk_set_depth(h, d, 1, 1)

\* no name counts as taken: the variant C17 has to tell apart
NameTakenNever(h, self, other) == FALSE

\* "if self.name in other.get_child_names()"
NameTaken(h, self, other) == h[self].name \in Range(get_child_names(h, other))

\* raise after other._children.append(self): the variant C18 has to tell apart
RejectedAfterAppend(h, self, other) ==
    [h |-> [h EXCEPT ![other].children = Append(@, self)], err |-> Some("FakedirError")]

\* "raise FakedirError(...)": the setter is left before anything is assigned
Rejected(h, self, other) == [h |-> h, err |-> Some("FakedirError")]

\* "if isinstance(self, FakeDir): self.set_child_depths()"
SubtreeDepths(h, self) ==
    IF h[self].isdir THEN set_child_depths(h, self) ELSE [h |-> h, err |-> None]

\* the setter from "if self.parent is not None" on; h1 is the heap after
\* "other._children.append(self)"
parent_assign(h1, self, other) ==
    SubtreeDepths(
        set_depth([(IF IsNone(h1[self].parent) THEN h1
                    ELSE [h1 EXCEPT ![Val(h1[self].parent)].children = RemoveFirst(@, self)])
                   EXCEPT ![self].parent = other],
                  self),
        self)

\* FakeItem.parent (setter): self.parent = other. The result is the heap and
\* the exception raised (None when none)
parent_setter(h, self, other) ==
    IF ~IsNone(other) /\ ~h[Val(other)].isdir THEN Rejected(h, self, Val(other))
    ELSE IF ~IsNone(other) /\ NameTaken(h, self, Val(other)) THEN Rejected(h, self, Val(other))
    ELSE parent_assign(IF IsNone(other) THEN h
                       ELSE [h EXCEPT ![Val(other)].children = Append(@, self)],
                       self, other)

\* FakeDir(name, parent) / FakeFile(name, parent): a new object, number Len(h) + 1
NewItem(h, name, isdir, parent) ==
    LET self == Len(h) + 1
        r == parent_setter(Append(h, FakeItem(name, isdir)), self, parent)
    IN IF ~IsNone(r.err) THEN [h |-> h, err |-> r.err]
       ELSE [h |-> set_depth([r.h EXCEPT ![self].depth = 0], self), err |-> None]

\* "to_del = next(f for f in self._children if f.name == target)"
ChildNamed(h, d, target) ==
    h[d].children[CHOOSE i \in 1..Len(h[d].children) :
                      /\ h[h[d].children[i]].name = target
                      /\ \A j \in 1..(i - 1) : h[h[d].children[j]].name # target]

\* FakeDir.delete(child) for a name or an object with that name: to_del.parent = None,
\* or the FakedirError raised when no child has the name
delete_target(h, d, target) ==
    IF target \notin Range(get_child_names(h, d)) THEN [h |-> h, err |-> Some("FakedirError")]
    ELSE parent_setter(h, ChildNamed(h, d, target), None)

RECURSIVE delete_targets(_, _, _, _)
RECURSIVE delete_targets_rest(_, _, _, _)
\* FakeDir.delete(child) for a collection: "for c in child_copy" from number i on
delete_targets(h, d, targets, i) ==
    IF i > Len(targets) THEN [h |-> h, err |-> None]
    ELSE delete_targets_rest(delete_target(h, d, targets[i]), d, targets, i)

\* the loop of delete after the target number i gave r
delete_targets_rest(r, d, targets, i) ==
    IF ~IsNone(r.err) THEN r ELSE delete_targets(r.h, d, targets, i + 1)

\* f.delete(f.listdir()): the children of f are named by the objects themselves
delete_listdir(h, f) == delete_targets(h, f, get_child_names(h, f), 1)

\* trim_apply(f, depthlimit)
trim_apply(h, f, depthlimit) ==
    IF h[f].depth = depthlimit /\ h[f].isdir THEN delete_listdir(h, f).h ELSE h

RECURSIVE walk_trim(_, _, _, _)
RECURSIVE walk_trim_child(_, _, _, _)
\* FakeDir.walk_apply(trim_apply, depthlimit=depthlimit) from child number k of d on
walk_trim(h, d, k, depthlimit) ==
    IF k > Len(h[d].children) THEN h
    ELSE walk_trim(walk_trim_child(trim_apply(h, h[d].children[k], depthlimit),
                                   h[d].children[k], 1, depthlimit),
                   d, k + 1, depthlimit)

\* "if isinstance(f, FakeDir): f.walk_apply(foo, *args, **kwargs)"
walk_trim_child(h, f, k, depthlimit) ==
    IF h[f].isdir THEN walk_trim(h, f, k, depthlimit) ELSE h

\* add_0(f): "f.name += ' 0'"
add_0(h, f) == [h EXCEPT ![f].name = @ \o <<" ", "0">>]

\* the walk of the children of f before foo(f): the variant the order of the
\* visits has to tell apart
WalkThenVisit(f, r) == [h |-> r.h, log |-> r.log \o <<f>>]

\* foo(f), then f.walk_apply(foo): r is the walk of the children of f
VisitThenWalk(f, r) == [h |-> r.h, log |-> <<f>> \o r.log]

RECURSIVE walk_add_0(_, _, _)
RECURSIVE walk_add_0_rest(_, _, _)
\* "foo(f)" and "if isinstance(f, FakeDir): f.walk_apply(foo)" for the child f,
\* with h the objects after foo(f)
walk_add_0_child(h, f) ==
    IF h[f].isdir THEN VisitThenWalk(f, walk_add_0(h, f, 1))
    ELSE [h |-> h, log |-> <<f>>]

\* FakeDir.walk_apply(add_0) from child number k of d on: the objects after
\* the walk, and the objects add_0 was called with, in order
walk_add_0(h, d, k) ==
    IF k > Len(h[d].children) THEN [h |-> h, log |-> <<>>]
    ELSE walk_add_0_rest(walk_add_0_child(add_0(h, h[d].children[k]), h[d].children[k]), d, k)

\* the loop of walk_apply after the walk of child number k returned r
walk_add_0_rest(r, d, k) ==
    [h |-> walk_add_0(r.h, d, k + 1).h, log |-> r.log \o walk_add_0(r.h, d, k + 1).log]

\* FakeDir.trim(depthlimit)
trim_items(h, d, depthlimit) ==
    IF depthlimit < 0 THEN [h |-> h, err |-> Some("FakedirError")]
    ELSE IF depthlimit = 0 THEN delete_listdir(h, d)
    ELSE [h |-> walk_trim(h, d, 1, depthlimit + h[d].depth), err |-> None]

\* the objects on the path from x up to the head, x included
RECURSIVE PathToHead(_, _)
PathToHead(h, x) ==
    IF IsNone(h[x].parent) THEN {x} ELSE {x} \cup PathToHead(h, Val(h[x].parent))

----------------------------------------------------------------------------
(* seedir/folderstructure.py: the adapter FakeDirStructure *)

getname(h, item) == h[item].name

isdir(h, item) == h[item].isdir

\* FakeDir.listdir hands out the FakeDir's own _children
listdir(h, item) == h[item].children

----------------------------------------------------------------------------
(* seedir/folderstructure.py: sorting *)

IsDigit(c) == c \in Digits

\* the longest prefix of s whose characters are all digits (d) or all non-digits (~d)
RECURSIVE RunLen(_, _)
RunLen(s, d) ==
    IF s # <<>> /\ (IsDigit(Head(s)) <=> d) THEN 1 + RunLen(Tail(s), d) ELSE 0

\* natsort's key of a str: alternately a str and an int, starting with a str
\* ("file10" gives <<"file", 10>>, "10a" gives <<"", 10, "a">>)
RECURSIVE NatChunks(_, _)
NatChunks(s, wantDigits) ==
    IF s = <<>> THEN <<>>
    ELSE LET n == RunLen(s, wantDigits)
         IN <<IF wantDigits THEN StrInt(Take(s, n)) ELSE Take(s, n)>>
            \o NatChunks(Drop(s, n), ~wantDigits)

\* the sort key of item x: natsort's key of key(x), where key is getname or
\* sort_key(getname(x)); the only sort_key of the model is len
SortKey(h, x, sort_key) ==
    IF IsNone(sort_key) THEN NatChunks(getname(h, x), FALSE)
    ELSE <<<<>>, Len(getname(h, x))>>

\* k1 < k2 for two natsort keys (tuples compared element by element)
KeyLess(k1, k2) ==
    \E i \in 1..Len(k2) :
        /\ i - 1 <= Len(k1)
        /\ \A j \in 1..(i - 1) : k1[j] = k2[j]
        /\ \/ i > Len(k1)
           \/ IF i % 2 = 1 THEN StrLess(k1[i], k2[i]) ELSE k1[i] < k2[i]

\* x also goes before an e of equal key (a sort that is not stable): the
\* variant C21 has to tell apart
BeforeOrEqual(h, x, e, sort_reverse, sort_key) ==
    IF sort_reverse THEN ~KeyLess(SortKey(h, x, sort_key), SortKey(h, e, sort_key))
    ELSE ~KeyLess(SortKey(h, e, sort_key), SortKey(h, x, sort_key))

\* x goes before e in the sorted output
Before(h, x, e, sort_reverse, sort_key) ==
    IF sort_reverse THEN KeyLess(SortKey(h, e, sort_key), SortKey(h, x, sort_key))
    ELSE KeyLess(SortKey(h, x, sort_key), SortKey(h, e, sort_key))

\* x inserted into the sorted list after every element it does not go before
InsertSorted(h, sorted, x, sort_reverse, sort_key) ==
    IF \E j \in 1..Len(sorted) : Before(h, x, sorted[j], sort_reverse, sort_key)
    THEN LET j == CHOOSE k \in 1..Len(sorted) :
                      /\ Before(h, x, sorted[k], sort_reverse, sort_key)
                      /\ \A m \in 1..(k - 1) : ~Before(h, x, sorted[m], sort_reverse, sort_key)
         IN Take(sorted, j - 1) \o <<x>> \o Drop(sorted, j - 1)
    ELSE Append(sorted, x)

RECURSIVE natsorted(_, _, _, _)
\* natsort.natsorted(items, reverse=sort_reverse, key=key): a stable sort
natsorted(h, items, sort_reverse, sort_key) ==
    IF items = <<>> THEN <<>>
    ELSE InsertSorted(h, natsorted(h, Take(items, Len(items) - 1), sort_reverse, sort_key),
                      items[Len(items)], sort_reverse, sort_key)

\* sort_dir raises ValueError for a first that is not 'folders', 'files' or None
sort_dir_raises(first) == ~IsNone(first) /\ Val(first) \notin {"folders", "files"}

\* FolderStructure.sort_dir
sort_dir(h, items, first, sort_reverse, sort_key) ==
    IF ~IsNone(first)
    THEN LET IsD(p) == isdir(h, p)
             NotD(p) == ~isdir(h, p)
             folders == natsorted(h, Filt(items, IsD), sort_reverse, sort_key)
             files == natsorted(h, Filt(items, NotD), sort_reverse, sort_key)
         IN IF Val(first) = "folders" THEN folders \o files ELSE files \o folders
    ELSE natsorted(h, items, sort_reverse, sort_key)

----------------------------------------------------------------------------
(* seedir/folderstructure.py: filtering, item limit, beyond string *)

\* An include/exclude argument is None, one pattern <<"str", p>> or a
\* list of patterns <<"list", ps>>
PatStr(p) == <<"str", p>>

PatList(ps) == <<"list", ps>>

\* [x] if _should_convert(x) else x: a list whose elements are a pattern or None
PatternList(x) ==
    IF IsNone(x) THEN <<None>>
    ELSE IF x[1] = "str" THEN <<Some(x[2])>>
    ELSE [i \in 1..Len(x[2]) |-> Some(x[2][i])]

\* filter_keep with the exclusion applied after the inclusion: the variant C7
\* has to tell apart
filter_keep_exclude_last(h, item, a) ==
    LET name == getname(h, item)
        inc == PatternList(IF isdir(h, item) THEN a.include_folders ELSE a.include_files)
        exc == PatternList(IF isdir(h, item) THEN a.exclude_folders ELSE a.exclude_files)
        Hit(pats) == \E i \in 1..Len(pats) :
                         ~IsNone(pats[i]) /\ is_match(Val(pats[i]), name, a.regex)
        keep0 == \A i \in 1..Len(inc) : IsNone(inc[i])
        keep1 == IF Hit(inc) THEN TRUE ELSE keep0
        keep2 == IF Hit(exc) THEN FALSE ELSE keep1
    IN keep2

\* the keep decision filter_items takes for one item when mask is None
filter_keep(h, item, a) ==
    LET name == getname(h, item)
        inc == PatternList(IF isdir(h, item) THEN a.include_folders ELSE a.include_files)
        exc == PatternList(IF isdir(h, item) THEN a.exclude_folders ELSE a.exclude_files)
        Hit(pats) == \E i \in 1..Len(pats) :
                         ~IsNone(pats[i]) /\ is_match(Val(pats[i]), name, a.regex)
        keep0 == \A i \in 1..Len(inc) : IsNone(inc[i])
        keep1 == IF Hit(exc) THEN FALSE ELSE keep0
        keep2 == IF Hit(inc) THEN TRUE ELSE keep1
    IN keep2

\* FolderStructure.filter_items, with the filter arguments taken from a
filter_items(h, items, a) ==
    LET Keep(item) == IF ~IsNone(a.mask) THEN item \in Val(a.mask)
                      ELSE filter_keep(h, item, a)
    IN Filt(items, Keep)

\* SliceTo taking one item more: the variant C4 has to tell apart
SliceToOneMore(items, n) == Take(items, Min(n + 1, Len(items)))

\* items[:n] and items[n:] as Python slices (a negative n counts from the end)
SliceTo(items, n) ==
    IF n >= 0 THEN Take(items, Min(n, Len(items)))
    ELSE Take(items, IF Len(items) + n < 0 THEN 0 ELSE Len(items) + n)

SliceFrom(items, n) ==
    IF n >= 0 THEN Drop(items, Min(n, Len(items)))
    ELSE Drop(items, IF Len(items) + n < 0 THEN 0 ELSE Len(items) + n)

RECURSIVE tuple_loop(_, _, _, _, _, _, _, _)
\* the loop of _apply_tuple_itemlimit from item number k on
tuple_loop(h, items, k, folderlimit, filelimit, foldercount, filecount, acc) ==
    IF k > Len(items) THEN acc
    ELSE LET item == items[k]
             d == isdir(h, item)
             roomD == IsNone(folderlimit) \/ foldercount < Val(folderlimit)
             roomF == IsNone(filelimit) \/ filecount < Val(filelimit)
         IN IF d /\ roomD
            THEN tuple_loop(h, items, k + 1, folderlimit, filelimit, foldercount + 1,
                            filecount, [acc EXCEPT !.final = Append(@, item)])
            ELSE IF d
            THEN tuple_loop(h, items, k + 1, folderlimit, filelimit, foldercount,
                            filecount, [acc EXCEPT !.rem = Append(@, item)])
            ELSE IF roomF
            THEN tuple_loop(h, items, k + 1, folderlimit, filelimit, foldercount,
                            filecount + 1, [acc EXCEPT !.final = Append(@, item)])
            ELSE tuple_loop(h, items, k + 1, folderlimit, filelimit, foldercount,
                            filecount, [acc EXCEPT !.rem = Append(@, item)])

\* FolderStructure._apply_tuple_itemlimit; itemlimit = <<folderlimit, filelimit>>,
\* each None (math.inf) or <<n>>
apply_tuple_itemlimit(h, items, itemlimit) ==
    tuple_loop(h, items, 1, itemlimit[1], itemlimit[2], 0, 0,
               [final |-> <<>>, rem |-> <<>>])

\* FolderStructure.apply_itemlimit; itemlimit is None, an int <<n>> or a
\* pair <<folderlimit, filelimit>>
apply_itemlimit(h, items, itemlimit) ==
    IF Len(itemlimit) = 2 THEN apply_tuple_itemlimit(h, items, itemlimit)
    ELSE LET n == Min(IF IsNone(itemlimit) THEN Len(items) ELSE Val(itemlimit), Len(items))
         IN [final |-> SliceTo(items, n), rem |-> SliceFrom(items, n)]

\* FolderStructure.count_folders / count_files
count_folders(h, items) == LET IsD(p) == isdir(h, p) IN Len(Filt(items, IsD))

count_files(h, items) == LET NotD(p) == ~isdir(h, p) IN Len(Filt(items, NotD))

\* str.lower()
ToLower(s) == [i \in 1..Len(s) |-> IF s[i] \in Upper THEN CodeOrder[Ord(s[i]) + 32] ELSE s[i]]

S_ellipsis == <<"e","l","l","i","p","s","i","s">>

S_content == <<"c","o","n","t","e","n","t">>

S_contents == <<"c","o","n","t","e","n","t","s">>

S_dots == <<".", ".", ".">>

S_folders == <<" ","f","o","l","d","e","r","(","s",")",","," ">>

S_files == <<" ","f","i","l","e","(","s",")">>

\* FolderStructure.beyond_depth_str: the text, or the ValueError it raises
beyond_depth_str(h, items, beyond) ==
    IF ToLower(beyond) = S_ellipsis THEN [s |-> S_dots, err |-> None]
    ELSE IF ToLower(beyond) \in {S_contents, S_content}
    THEN [s |-> IntStr(count_folders(h, items)) \o S_folders
                \o IntStr(count_files(h, items)) \o S_files,
          err |-> None]
    ELSE IF beyond # <<>> /\ beyond[1] = "_" THEN [s |-> Tail(beyond), err |-> None]
    ELSE [s |-> <<>>, err |-> Some("ValueError")]

\* get_base_header with the extend token in every column: the variant the
\* header columns have to tell apart
get_base_header_extended(incomplete, extend, space) ==
    IF incomplete = <<>> THEN <<>>
    ELSE LET max_i == CHOOSE m \in Range(incomplete) : \A n \in Range(incomplete) : n <= m
         IN Concat([q \in 1..max_i |-> extend])

\* FolderStructure.get_base_header
get_base_header(incomplete, extend, space) ==
    IF incomplete = <<>> THEN <<>>
    ELSE LET max_i == CHOOSE m \in Range(incomplete) : \A n \in Range(incomplete) : n <= m
         IN Concat([q \in 1..max_i |->
                       IF (q - 1) \in Range(incomplete) THEN extend ELSE space])

----------------------------------------------------------------------------
(* seedir/folderstructure.py: FolderStructureArgs and the recursion *)

\* the classes an exception of the given class is an instance of
ErrorBases(kind) ==
    CASE kind = "FakedirError" -> {"FakedirError", "Exception"}
      [] kind = "PermissionError" -> {"PermissionError", "OSError", "Exception"}
      [] kind = "OSError" -> {"OSError", "Exception"}
      [] kind = "ValueError" -> {"ValueError", "Exception"}
      [] OTHER -> {kind, "Exception"}

\* an except clause that catches every exception: the variant C8 has to tell apart
CatchesAll(acceptable, kind) == TRUE

\* except acceptable: the clause catches an exception of class kind
Catches(acceptable, kind) == ErrorBases(kind) \cap acceptable # {}

\* FolderStructureArgs.update_with_formatter: formatter(item) is None, or
\* <<d>> for a dict d whose items are set as attributes
update_with_formatter(args, item) ==
    LET newstyle == Val(args.formatter)[item]
    IN IF IsNone(newstyle) THEN args
       ELSE [k \in DOMAIN args |->
                IF k \in DOMAIN Val(newstyle) THEN Val(newstyle)[k] ELSE args[k]]

\* one line of OUTPUT: header + start + name + end + error_tag + '\n'
LineText(l) == l.header \o l.branch \o l.start \o l.name \o l.end \o l.tag \o <<"NL">>

RECURSIVE recurse(_, _, _, _, _, _, _, _, _)
RECURSIVE recurse_items(_, _, _, _, _, _, _, _, _)

\* A result of the recursion: the lines added to OUTPUT, the list INCOMPLETE
\* as the call leaves it, and the exception raised (None when none)
Raised(inc, err) == [lines |-> <<>>, inc |-> inc, err |-> err]

Returned(ls, inc) == [lines |-> ls, inc |-> inc, err |-> None]

\* "RETURN": the line of the item, then what the loop over finalitems added
recurse_return(line, rest) ==
    IF ~IsNone(rest.err) THEN Raised(rest.inc, rest.err)
    ELSE Returned(<<line>> \o rest.lines, rest.inc)

\* INCOMPLETE.append(DEPTH) also for a container without entries: the variant
\* the discipline of INCOMPLETE has to tell apart
PushesAlways(total) == TRUE

\* "if finalitems:" before INCOMPLETE.append(DEPTH)
Pushes(total) == total > 0

\* "RECURSE": INCOMPLETE.append(DEPTH) when there are entries, then the loop
recurse_loop(h, rs, next_args, DEPTH, inc1, line, finalitems, beyond_text) ==
    LET total == Len(finalitems) + (IF IsNone(beyond_text) THEN 0 ELSE 1)
    IN recurse_return(line,
           recurse_items(h, rs, finalitems, beyond_text, 1, total, DEPTH,
                         IF Pushes(total) THEN Append(inc1, DEPTH) ELSE inc1, next_args))

\* "append beyond string if being used": bstr is beyond_depth_str(rem, args.beyond)
recurse_beyond(h, rs, next_args, DEPTH, inc1, line, lim, beyond_added, bstr) ==
    IF beyond_added /\ ~IsNone(bstr.err) THEN Raised(inc1, bstr.err)
    ELSE recurse_loop(h, rs, next_args, DEPTH, inc1, line, lim.final,
                      IF beyond_added THEN Some(bstr.s) ELSE None)

\* lim is apply_itemlimit(listdir, current_itemlimit)
recurse_limited(h, rs, args, next_args, DEPTH, inc1, line, lim) ==
    LET beyond_added == /\ ~IsNone(args.beyond)
                        /\ (lim.rem # <<>> \/ args.depthlimit = Some(DEPTH))
    IN recurse_beyond(h, rs, next_args, DEPTH, inc1, line, lim, beyond_added,
                      IF beyond_added THEN beyond_depth_str(h, lim.rem, Val(args.beyond))
                      ELSE [s |-> <<>>, err |-> None])

\* "if args.sort or args.first is not None"
Sorting(args) == args.sort \/ ~IsNone(args.first)

\* "if any(arg is not None for arg in filterargs.values())"
Filtering(args) ==
    \/ ~IsNone(args.include_folders) \/ ~IsNone(args.exclude_folders)
    \/ ~IsNone(args.include_files) \/ ~IsNone(args.exclude_files)
    \/ ~IsNone(args.mask)

\* listdir after the sort step
SortStep(h, args, ld) ==
    IF Sorting(args) THEN sort_dir(h, ld, args.first, args.sort_reverse, args.sort_key)
    ELSE ld

\* FilterStep with the filter left out: the variant C6 has to tell apart
FilterStepNone(h, args, ld) == ld

\* listdir after the filter step
FilterStep(h, args, ld) == IF Filtering(args) THEN filter_items(h, ld, args) ELSE ld

\* DepthLimitReached with > in place of >=: the variant C3 has to tell apart
DepthLimitReachedLate(args, DEPTH) == ~IsNone(args.depthlimit) /\ DEPTH > Val(args.depthlimit)

\* "if isinstance(args.depthlimit, int) and DEPTH >= args.depthlimit"
DepthLimitReached(args, DEPTH) == ~IsNone(args.depthlimit) /\ DEPTH >= Val(args.depthlimit)

\* the object whose list of children the list named listdir is after the sort
\* and filter steps: FakeDir.listdir returns self._children itself, sort_dir
\* and filter_items return lists of their own (None)
ListingOwner(args, ITEM) == IF Sorting(args) \/ Filtering(args) THEN None ELSE Some(ITEM)

\* apply_itemlimit returning items itself when the limit cuts nothing: the
\* variant the unchanged tree has to tell apart
apply_itemlimit_owner_uncut(owner, items, itemlimit) ==
    IF IsNone(itemlimit) \/ (Len(itemlimit) = 1 /\ Val(itemlimit) >= Len(items))
    THEN owner ELSE None

\* the object whose list of children finalitems is: items[:itemlimit] and the
\* lists _apply_tuple_itemlimit builds are lists of their own (None)
apply_itemlimit_owner(owner, items, itemlimit) == None

\* "FILTER/SORT CHILDREN" of a folder that was listed
recurse_children(h, rs, ITEM, args, next_args, DEPTH, inc1, line) ==
    LET at_limit == DepthLimitReached(args, DEPTH)
        current_itemlimit == IF at_limit THEN Some(0) ELSE args.itemlimit
    IN IF at_limit /\ IsNone(args.beyond) THEN Returned(<<line>>, inc1)
       ELSE IF Sorting(args) /\ sort_dir_raises(args.first) THEN Raised(inc1, Some("ValueError"))
       ELSE recurse_limited(h, rs, args, next_args, DEPTH, inc1,
                [line EXCEPT !.owner = apply_itemlimit_owner(ListingOwner(args, ITEM),
                                                             listdir(h, ITEM), current_itemlimit)],
                apply_itemlimit(h, FilterStep(h, args, SortStep(h, args, listdir(h, ITEM))),
                                current_itemlimit))

\* the split token for every entry: the variant C12 has to tell apart
BranchSplit(args, is_rootitem, is_lastitem) == IF is_rootitem THEN <<>> ELSE args.split

\* "handle ultimate token in header"
Branch(args, is_rootitem, is_lastitem) ==
    IF is_rootitem THEN <<>> ELSE IF is_lastitem THEN args.final ELSE args.split

\* the formatter applied to the beyond text too: the variant C11 has to tell apart
FormatterAppliesAlways(FSARGS, IS_RAWSTRING) == ~IsNone(FSARGS.formatter)

\* "if not is_rawstring and args.formatter is not None"
FormatterApplies(FSARGS, IS_RAWSTRING) == ~IS_RAWSTRING /\ ~IsNone(FSARGS.formatter)

\* next_args always the merged args: the variant C9 has to tell apart
NextArgsMerged(args, FSARGS) == args

\* next_args always FSARGS: the variant C10 has to tell apart
NextArgsOriginal(args, FSARGS) == FSARGS

\* "next_args = FSARGS" and "if args.sticky_formatter: next_args = args"
NextArgs(args, FSARGS) == IF args.sticky_formatter THEN args ELSE FSARGS

\* the listing skipped for a folder at the depth limit that shows nothing
\* beneath it: the variant the order of listing and depth limit has to tell apart
ListsWithinDepthLimit(h, ITEM, args, DEPTH, IS_RAWSTRING) ==
    /\ ~IS_RAWSTRING /\ isdir(h, ITEM)
    /\ ~(DepthLimitReached(args, DEPTH) /\ IsNone(args.beyond))

\* "if not is_rawstring and self.isdir(ITEM)": self.listdir(ITEM) is called
Lists(h, ITEM, args, DEPTH, IS_RAWSTRING) == ~IS_RAWSTRING /\ isdir(h, ITEM)

\* "GET CHILDREN" and "ADD CURRENT ITEM TO OUTPUT", with args the copy of
\* FSARGS after the formatter
recurse_item(h, rs, ITEM, RAW, FSARGS, args, DEPTH, INCOMPLETE, IS_LASTITEM, IS_RAWSTRING) ==
    LET is_rootitem == DEPTH = 0
        next_args == NextArgs(args, FSARGS)
        folder == ~IS_RAWSTRING /\ isdir(h, ITEM)
        lists == Lists(h, ITEM, args, DEPTH, IS_RAWSTRING)
        thrown == IF lists THEN rs[ITEM] ELSE None
        error_listing == ~IsNone(thrown) /\ Catches(args.acceptable_listdir_errors, Val(thrown))
        line == [item |-> ITEM, raw |-> IS_RAWSTRING, depth |-> DEPTH,
                 header |-> get_base_header(INCOMPLETE, args.extend, args.space),
                 branch |-> Branch(args, is_rootitem, IS_LASTITEM),
                 start |-> IF folder THEN args.folderstart ELSE args.filestart,
                 name |-> IF IS_RAWSTRING THEN RAW ELSE getname(h, ITEM),
                 end |-> IF folder THEN args.folderend ELSE args.fileend,
                 tag |-> IF error_listing THEN args.denied_string ELSE <<>>,
                 calls |-> IF FormatterApplies(FSARGS, IS_RAWSTRING) THEN <<ITEM>> ELSE <<>>,
                 listed |-> IF lists THEN <<ITEM>> ELSE <<>>,
                 inc |-> INCOMPLETE,
                 owner |-> None]
        pop == IS_LASTITEM /\ INCOMPLETE # <<>>
    IN IF ~IsNone(thrown) /\ ~error_listing THEN Raised(INCOMPLETE, thrown)
       ELSE IF pop /\ (DEPTH - 1) \notin Range(INCOMPLETE)
       THEN Raised(INCOMPLETE, Some("ValueError"))
       ELSE IF ~lists \/ error_listing
       THEN Returned(<<line>>, IF pop THEN RemoveFirst(INCOMPLETE, DEPTH - 1) ELSE INCOMPLETE)
       ELSE recurse_children(h, rs, ITEM, args, next_args, DEPTH,
                IF pop THEN RemoveFirst(INCOMPLETE, DEPTH - 1) ELSE INCOMPLETE, line)

\* FolderStructure._folder_structure_recurse. ITEM is an object, or 0 with the
\* text RAW when IS_RAWSTRING
recurse(h, rs, ITEM, RAW, FSARGS, DEPTH, INCOMPLETE, IS_LASTITEM, IS_RAWSTRING) ==
    recurse_item(h, rs, ITEM, RAW, FSARGS,
                 IF FormatterApplies(FSARGS, IS_RAWSTRING)
                 THEN update_with_formatter(FSARGS, ITEM) ELSE FSARGS,
                 DEPTH, INCOMPLETE, IS_LASTITEM, IS_RAWSTRING)

\* two results in sequence
ThenResult(r, rr) ==
    IF ~IsNone(rr.err) THEN Raised(rr.inc, rr.err)
    ELSE Returned(r.lines \o rr.lines, rr.inc)

\* the rest of the loop after entry i returned r
recurse_rest(h, rs, items, beyond_text, i, total, DEPTH, next_args, r) ==
    IF ~IsNone(r.err) THEN Raised(r.inc, r.err)
    ELSE ThenResult(r, recurse_items(h, rs, items, beyond_text, i + 1, total, DEPTH,
                                     r.inc, next_args))

\* the loop "for i, x in enumerate(finalitems)" from entry number i on;
\* finalitems is items, followed by the beyond text when beyond_added
recurse_items(h, rs, items, beyond_text, i, total, DEPTH, INCOMPLETE, next_args) ==
    IF i > total THEN Returned(<<>>, INCOMPLETE)
    ELSE LET last == i = total
             IS_RAWSTRING == ~IsNone(beyond_text) /\ last
         IN recurse_rest(h, rs, items, beyond_text, i, total, DEPTH, next_args,
                recurse(h, rs, IF IS_RAWSTRING THEN 0 ELSE items[i],
                        IF IS_RAWSTRING THEN Val(beyond_text) ELSE <<>>,
                        next_args, DEPTH + 1, INCOMPLETE, last, IS_RAWSTRING))

\* the keyword arguments __call__ accepts as **kwargs
accept_kwargs == {"extend", "split", "space", "final",
                  "folderstart", "filestart", "folderend", "fileend"}

\* the defaults of FolderStructure.__call__
DefaultOpts ==
    [style |-> "lines", indent |-> 2, uniform |-> None, anystart |-> None,
     anyend |-> None, depthlimit |-> None, itemlimit |-> None, beyond |-> None,
     first |-> None, sort |-> FALSE, sort_reverse |-> FALSE, sort_key |-> None,
     include_folders |-> None, exclude_folders |-> None, include_files |-> None,
     exclude_files |-> None, regex |-> FALSE, mask |-> None, formatter |-> None,
     sticky_formatter |-> FALSE, acceptable_listdir_errors |-> None,
     denied_string |-> <<>>, kwargs |-> <<>>]

\* the style tokens __call__ computes from style, indent, uniform, anystart,
\* anyend and **kwargs
CallStyleargs(o) ==
    LET indented == format_indent(STYLE_DICT(o.style), o.indent)
    IN [k \in DOMAIN indented |->
           IF k \in DOMAIN o.kwargs THEN o.kwargs[k]
           ELSE IF k \in {"folderend", "fileend"} /\ ~IsNone(o.anyend) THEN Val(o.anyend)
           ELSE IF k \in {"folderstart", "filestart"} /\ ~IsNone(o.anystart) THEN Val(o.anystart)
           ELSE IF k \in Indentable /\ ~IsNone(o.uniform) THEN Val(o.uniform)
           ELSE indented[k]]

\* CallRaises without the check of **kwargs: the variant C15 has to tell apart
CallRaisesStyleIndent(o) ==
    \/ get_styleargs_raises(o.style)
    \/ format_indent_raises(o.indent)

\* the ValueError __call__ raises before it builds the FolderStructureArgs
CallRaises(o) ==
    \/ \E k \in DOMAIN o.kwargs : k \notin accept_kwargs
    \/ get_styleargs_raises(o.style)
    \/ format_indent_raises(o.indent)

\* args = FolderStructureArgs(...) as __call__ builds it
CallArgs(o) ==
    LET t == CallStyleargs(o)
    IN [extend |-> t.extend, space |-> t.space, split |-> t.split, final |-> t.final,
        filestart |-> t.filestart, folderstart |-> t.folderstart,
        fileend |-> t.fileend, folderend |-> t.folderend,
        depthlimit |-> o.depthlimit, itemlimit |-> o.itemlimit, beyond |-> o.beyond,
        first |-> o.first,
        sort |-> IF ~IsNone(o.sort_key) \/ o.sort_reverse THEN TRUE ELSE o.sort,
        sort_reverse |-> o.sort_reverse, sort_key |-> o.sort_key,
        include_folders |-> o.include_folders, exclude_folders |-> o.exclude_folders,
        include_files |-> o.include_files, exclude_files |-> o.exclude_files,
        regex |-> o.regex, mask |-> o.mask, formatter |-> o.formatter,
        sticky_formatter |-> o.sticky_formatter,
        acceptable_listdir_errors |->
            IF IsNone(o.acceptable_listdir_errors) THEN {}
            ELSE Val(o.acceptable_listdir_errors),
        denied_string |-> o.denied_string]

\* the traversal __call__ starts: _folder_structure_recurse(ITEM=folder, FSARGS=args)
Traverse(h, rs, folder, args) == recurse(h, rs, folder, <<>>, args, 0, <<>>, FALSE, FALSE)

\* s = OUTPUT.strip(), returned unless the traversal raised
CallReturn(r) ==
    IF ~IsNone(r.err) THEN [text |-> None, err |-> r.err, lines |-> <<>>, inc |-> r.inc]
    ELSE [text |-> Some(Strip(Concat([i \in 1..Len(r.lines) |-> LineText(r.lines[i])]))),
          err |-> None, lines |-> r.lines, inc |-> r.inc]

\* the objects after the traversal wrote the lines ls: "finalitems += [...]"
\* extends the list finalitems in place, which is the list of children of its
\* owner when it has one (the text added is entry 0)
finalitems_extend(h, ls) ==
    [x \in 1..Len(h) |->
        IF \E i \in 1..Len(ls) :
               /\ ls[i].owner = Some(x)
               /\ \E j \in (i + 1)..Len(ls) :
                      /\ ls[j].raw /\ ls[j].depth = ls[i].depth + 1
                      /\ \A k \in (i + 1)..j : ls[k].depth > ls[i].depth
        THEN [h[x] EXCEPT !.children = Append(@, 0)]
        ELSE h[x]]

\* FolderStructure.__call__(folder, printout=False, **o): the text returned
\* (None when an exception is raised), the exception, and the lines of OUTPUT
Call(h, rs, folder, o) ==
    IF CallRaises(o)
    THEN [text |-> None, err |-> Some("ValueError"), lines |-> <<>>, inc |-> <<>>]
    ELSE CallReturn(Traverse(h, rs, folder, CallArgs(o)))

\* a listdir that never raises (FakeDirStructure)
NoRaise(h) == [i \in 1..Len(h) |-> None]

----------------------------------------------------------------------------
(* seedir/fakedir.py: fakedir_fromstring with its default arguments *)

Punct == {"!", "#", "$", "%", "&", "'", "(", ")", ",", ".", ";", "@",
          "[", "]", "^", "_", "BTICK", "{", "}", "~"}

\* the class [start_chars]: letters, digits and punctuation except /:?"*<>| and +=-
\* (in the class the backslash only escapes the bracket after it)
StartChars == Lower \cup Upper \cup Digits \cup Punct

\* the class [name_chars]: the same with + = - and \s
NameChars == StartChars \cup {"+", "=", "-"} \cup Whitespace

\* the length of the match of '.*?(?=[start_chars])' on line, or None
HeaderLen(line) ==
    IF \E i \in 1..Len(line) : line[i] \in StartChars
    THEN Some((CHOOSE i \in 1..Len(line) :
                   line[i] \in StartChars /\ \A j \in 1..(i - 1) : line[j] \notin StartChars) - 1)
    ELSE None

RECURSIVE NameRun(_)
\* the match of '[name_chars]*' at the start of s
NameRun(s) == IF s # <<>> /\ Head(s) \in NameChars THEN <<Head(s)>> \o NameRun(Tail(s)) ELSE <<>>

\* re.match('.*?(?=#)', name).group().strip()
BeforeComment(name) ==
    LET i == CHOOSE k \in 1..Len(name) : name[k] = "#" /\ \A j \in 1..(k - 1) : name[j] # "#"
    IN Strip(Take(name, i - 1))

\* the name and depth fakedir_fromstring reads from one line (None when the line is skipped)
ParseLine(line) ==
    IF line = <<>> \/ IsNone(HeaderLen(line)) THEN None
    ELSE LET depth == Val(HeaderLen(line))
             name0 == NameRun(Drop(line, depth))
             name == IF "#" \in Range(name0) THEN BeforeComment(name0) ELSE name0
         IN IF name = <<>> THEN None ELSE Some([name |-> name, depth |-> depth])

RECURSIVE ParseLines(_)
\* the first loop: names and depths of the lines that are not skipped
ParseLines(byline) ==
    IF byline = <<>> THEN <<>>
    ELSE LET p == ParseLine(Head(byline))
         IN (IF IsNone(p) THEN <<>> ELSE <<Val(p)>>) \o ParseLines(Tail(byline))

S_FakeDir == <<"F", "a", "k", "e", "D", "i", "r">>

\* is_folder for line i
is_folder(recs, i) ==
    LET stripped == Strip(recs[i].name)
    IN \/ stripped[Len(stripped)] \in Separators
       \/ (i < Len(recs) /\ recs[i + 1].depth > recs[i].depth)

\* ParseParent with the first line of depth max_shallower taken in place of
\* the last one: the variant round trip C1 has to tell apart
ParseParentFirst(recs, i, fakeitems, superparent, min_depth) ==
    IF recs[i].depth = min_depth THEN superparent
    ELSE LET shallower == {j \in 1..(i - 1) : recs[j].depth < recs[i].depth}
         IN IF shallower = {} THEN superparent
            ELSE LET max_shallower == CHOOSE d \in {recs[j].depth : j \in shallower} :
                                          \A j \in shallower : recs[j].depth <= d
                     parent_index == CHOOSE j \in 1..(i - 1) :
                                         /\ recs[j].depth = max_shallower
                                         /\ \A m \in 1..(j - 1) : recs[m].depth # max_shallower
                 IN Some(fakeitems[parent_index])

\* the parent of the item made for line i: an object, or None
ParseParent(recs, i, fakeitems, superparent, min_depth) ==
    IF recs[i].depth = min_depth THEN superparent
    ELSE LET shallower == {j \in 1..(i - 1) : recs[j].depth < recs[i].depth}
         IN IF shallower = {} THEN superparent
            ELSE LET max_shallower == CHOOSE d \in {recs[j].depth : j \in shallower} :
                                          \A j \in shallower : recs[j].depth <= d
                     parent_index == CHOOSE j \in 1..(i - 1) :
                                         /\ recs[j].depth = max_shallower
                                         /\ \A m \in (j + 1)..(i - 1) : recs[m].depth # max_shallower
                 IN Some(fakeitems[parent_index])

RECURSIVE ParseBuild(_, _, _, _, _, _)
\* the second loop from line i on: one FakeDir or FakeFile per line
ParseBuild(h, recs, i, fakeitems, superparent, min_depth) ==
    IF i > Len(recs) THEN [h |-> h, fakeitems |-> fakeitems, err |-> None]
    ELSE LET r == NewItem(h, recs[i].name, is_folder(recs, i),
                          ParseParent(recs, i, fakeitems, superparent, min_depth))
         IN IF ~IsNone(r.err) THEN [h |-> h, fakeitems |-> fakeitems, err |-> r.err]
            ELSE ParseBuild(r.h, recs, i + 1, Append(fakeitems, Len(r.h)),
                            superparent, min_depth)

\* the first index of min_depth in depths
FirstIndex(depths, min_depth) ==
    CHOOSE i \in 1..Len(depths) : depths[i] = min_depth /\ \A j \in 1..(i - 1) : depths[j] # min_depth

\* "if depths.count(min_depth) > 1 or any(d > min_depth for d in depths[:min_depth_index1])"
NeedsSuperparent(depths, min_depth) ==
    \/ Cardinality({i \in 1..Len(depths) : depths[i] = min_depth}) > 1
    \/ \E i \in 1..(FirstIndex(depths, min_depth) - 1) : depths[i] > min_depth

\* "if superparent is not None: return superparent / else: return fakeitems[idx]"
ParseReturn(b, super, min_depth_index1) ==
    IF ~IsNone(b.err) THEN [h |-> b.h, root |-> 0, err |-> b.err]
    ELSE [h |-> b.h, err |-> None, root |-> IF super THEN 1 ELSE b.fakeitems[min_depth_index1]]

\* the superparent and the second loop
ParseItems(recs, depths, min_depth, super) ==
    ParseReturn(ParseBuild(IF super THEN <<FakeItem(S_FakeDir, TRUE)>> ELSE <<>>, recs, 1, <<>>,
                           IF super THEN Some(1) ELSE None, min_depth),
                super, FirstIndex(depths, min_depth))

\* min_depth = min(depths)
ParseDepths(recs, depths) ==
    LET min_depth == CHOOSE d \in Range(depths) : \A e \in Range(depths) : d <= e
    IN ParseItems(recs, depths, min_depth, NeedsSuperparent(depths, min_depth))

\* what fakedir_fromstring does with the names and depths it read
ParseRecs(recs) ==
    IF recs = <<>> THEN [h |-> <<>>, root |-> 0, err |-> Some("ValueError")]
    ELSE ParseDepths(recs, [i \in 1..Len(recs) |-> recs[i].depth])

\* fakedir_fromstring(s): the heap of the objects built, the object returned
\* (0 when an exception is raised) and the exception
fakedir_fromstring(s) == ParseRecs(ParseLines(Split(s, "NL")))

----------------------------------------------------------------------------
(* The driver: a tree is built with create_folder / create_file, rendered  *)
(* with FolderStructure.__call__, the text parsed with fakedir_fromstring  *)
(* and the parsed tree rendered again with the same options.               *)

S_r == <<"r">>

\* names without a character the parser treats specially, and names with one
RoundTripNames == {<<"a">>, <<"b", " ", "c">>, <<"-", "a">>, <<"a", "#", "b">>}

\* no mutation yet
NoOp == [kind |-> "none", self |-> 0, other |-> 0]

Init ==
    /\ tree = <<FakeItem(S_r, TRUE)>>
    /\ pc = "build"
    /\ cfg = None
    /\ raises = None
    /\ lines = <<>>
    /\ text = None
    /\ error = None
    /\ ptree = None
    /\ proot = 0
    /\ text2 = None
    /\ op = NoOp
    /\ listing = <<>>
    /\ relisting = <<>>
    /\ unfinished = <<>>
    /\ visited = <<>>

\* The objects a new item may be put under. Children keep their insertion
\* order, so building in pre-order (under the newest object or one of its
\* ancestors) reaches every ordered tree, each with one numbering of its objects.
OpenFolders == {p \in PathToHead(tree, Len(tree)) : tree[p].isdir}

\* FakeDir.create_folder(name) on object p
create_folder(Names) ==
    /\ pc = "build"
    /\ Len(tree) < MaxNodes
    /\ \E p \in OpenFolders, name \in Names :
           tree' = NewItem(tree, name, TRUE, Some(p)).h
    /\ UNCHANGED <<pc, cfg, raises, lines, text, error, ptree, proot, text2, op, listing, relisting, unfinished, visited>>

\* FakeDir.create_file(name) on object p
create_file(Names) ==
    /\ pc = "build"
    /\ Len(tree) < MaxNodes
    /\ \E p \in OpenFolders, name \in Names :
           tree' = NewItem(tree, name, FALSE, Some(p)).h
    /\ UNCHANGED <<pc, cfg, raises, lines, text, error, ptree, proot, text2, op, listing, relisting, unfinished, visited>>

\* s = structure(tree, printout=False, **o) with an adapter whose listdir raises as rs says
seedir(Options, Raising) ==
    /\ pc = "build"
    /\ \E o \in Options, rs \in Raising :
           \E r \in {Call(tree, rs, 1, o)} :
              /\ cfg' = Some(o)
              /\ raises' = rs
              /\ lines' = r.lines
              /\ text' = r.text
              /\ error' = r.err
              /\ unfinished' = r.inc
              /\ tree' = finalitems_extend(tree, r.lines)
    /\ pc' = "rendered"
    /\ UNCHANGED <<ptree, proot, text2, op, listing, relisting, visited>>

\* f = fakedir_fromstring(s)
fromstring ==
    /\ pc = "rendered"
    /\ ~IsNone(text)
    /\ \E r \in {fakedir_fromstring(Val(text))} :
          /\ ptree' = Some(r.h)
          /\ proot' = r.root
          /\ error' = r.err
    /\ pc' = "parsed"
    /\ UNCHANGED <<tree, cfg, raises, lines, text, text2, op, listing, relisting, unfinished, visited>>

\* structure(f, printout=False, **o): the parsed tree rendered with the same options
reseedir ==
    /\ pc = "parsed"
    /\ proot # 0
    /\ text2' = Call(Val(ptree), NoRaise(Val(ptree)), proot, Val(cfg)).text
    /\ pc' = "done"
    /\ UNCHANGED <<tree, cfg, raises, lines, text, error, ptree, proot, op, listing, relisting, unfinished, visited>>

\* Round trip under the default options
Next ==
    \/ create_folder(RoundTripNames)
    \/ create_file(RoundTripNames)
    \/ seedir({DefaultOpts}, {NoRaise(tree)})
    \/ fromstring
    \/ reseedir

Spec == Init /\ [][Next]_vars

----------------------------------------------------------------------------
(* Trees compared by their names *)

\* the objects of h in the tree under root, root included
Reach(h, root) == {x \in 1..Len(h) : root \in PathToHead(h, x)}

RECURSIVE NamePath(_, _, _)
\* the names from root down to x
NamePath(h, root, x) ==
    IF x = root \/ IsNone(h[x].parent) THEN <<h[x].name>>
    ELSE Append(NamePath(h, root, Val(h[x].parent)), h[x].name)

\* Two trees have the same root name and the same set of child names under
\* corresponding containers exactly when they have the same set of name paths
NamePaths(h, root) == {NamePath(h, root, x) : x \in Reach(h, root)}

NoSeparatorOrNewline(name) == \A i \in 1..Len(name) : name[i] \notin Separators \cup {"NL"}

\* a name the default parser reads back whole: not empty, made of name
\* characters only, no "#", starting with a start character and not ending
\* in whitespace
SafeName(name) ==
    /\ name # <<>>
    /\ \A i \in 1..Len(name) : name[i] \in NameChars \ {"NL", "#"}
    /\ name[1] \in StartChars
    /\ name[Len(name)] \notin Whitespace

SameNames == IsNone(error) /\ proot # 0 /\ NamePaths(Val(ptree), proot) = NamePaths(tree, 1)

\* C1 as stated: for every tree whose names hold no path separator and no
\* newline, parsing the default render gives a tree with the same root name and
\* the same child names under every container
C1_AnyNameRoundTrip ==
    (pc = "parsed" /\ \A x \in 1..Len(tree) : NoSeparatorOrNewline(tree[x].name)) => SameNames

\* C1 amended: the same for every tree whose names are all names the default
\* parser reads back whole (SafeName)
C1_SafeNameRoundTrip ==
    (pc = "parsed" /\ \A x \in 1..Len(tree) : SafeName(tree[x].name)) => SameNames

\* a parsed tree of safe names with a name holding a space, a container with a
\* later sibling and a node two levels down
C1_Witness ==
    /\ pc = "parsed"
    /\ \A x \in 1..Len(tree) : SafeName(tree[x].name)
    /\ \E x \in 1..Len(tree) : " " \in Range(tree[x].name)
    /\ \E x \in 1..Len(tree) : tree[x].depth = 2
    /\ Len(tree[1].children) >= 2

\* C2: the default render of the tree parsed from the default render of T is
\* the default render of T
C2_TextFixpoint == pc = "done" => text2 = text

----------------------------------------------------------------------------
(* The lines of a render, read as a tree *)

\* the lines beneath line i: the lines after it, up to the next line that is not deeper
Beneath(ls, i) == {j \in (i + 1)..Len(ls) : \A k \in (i + 1)..j : ls[k].depth > ls[i].depth}

\* the lines of the entries of line i (one level down), in order
Entries(ls, i) ==
    LET S == {j \in Beneath(ls, i) : ls[j].depth = ls[i].depth + 1}
    IN [k \in 1..Cardinality(S) |-> CHOOSE j \in S : Cardinality({m \in S : m < j}) = k - 1]

\* the items with a line among the entries of line i, in order
EntryItems(ls, i) ==
    LET IsItem(j) == ~ls[j].raw
        e == SelectSeq(Entries(ls, i), IsItem)
    IN [k \in 1..Len(e) |-> ls[e[k]].item]

\* the texts of the lines among the entries of line i that are not items
EntryTexts(ls, i) ==
    LET IsText(j) == ls[j].raw
        e == SelectSeq(Entries(ls, i), IsText)
    IN [k \in 1..Len(e) |-> ls[e[k]].name]

\* the lines of the containers of the tree
ContainerLines == {i \in 1..Len(lines) : ~lines[i].raw /\ tree[lines[i].item].isdir}

\* the render returned a text
Rendered == pc = "rendered" /\ IsNone(error) /\ ~IsNone(text)

\* the names of the trees the engine is run on
EngineNames == {<<"a">>, <<"b">>, <<"c">>}

----------------------------------------------------------------------------
(* Depth limit without a beyond policy *)

DepthOpts ==
    {[DefaultOpts EXCEPT !.depthlimit = Some(n), !.sort = srt] : n \in 0..2, srt \in BOOLEAN}

NextDepth ==
    \/ create_folder(EngineNames)
    \/ create_file(EngineNames)
    \/ seedir(DepthOpts, {NoRaise(tree)})

SpecDepth == Init /\ [][NextDepth]_vars

\* C3: with depthlimit n and no beyond, no line is rendered for a node deeper
\* than n, every container at depth n has exactly one line and nothing beneath
\* it, and with n = 0 the text is the root line alone
C3_DepthLimit ==
    pc = "rendered" =>
        LET n == Val(Val(cfg).depthlimit)
        IN /\ Rendered
           /\ \A i \in 1..Len(lines) : ~lines[i].raw /\ tree[lines[i].item].depth <= n
           /\ \A x \in 1..Len(tree) :
                  (tree[x].isdir /\ tree[x].depth = n) =>
                      \E i \in 1..Len(lines) :
                          /\ lines[i].item = x
                          /\ Beneath(lines, i) = {}
                          /\ \A j \in 1..Len(lines) : lines[j].item = x => j = i
           /\ (n = 0) => text = Some(tree[1].name \o <<"/">>)

\* a render with depthlimit 1 of a tree that has a container with a child at depth 1
C3_Witness ==
    /\ Rendered
    /\ Val(cfg).depthlimit = Some(1)
    /\ IsNone(Val(cfg).beyond)
    /\ \E x \in 1..Len(tree) : tree[x].depth = 1 /\ tree[x].isdir /\ tree[x].children # <<>>
    /\ Len(lines) >= 2

----------------------------------------------------------------------------
(* Scalar item limit *)

S_a == <<"a">>

LimitOpts ==
    {[DefaultOpts EXCEPT !.itemlimit = Some(n), !.beyond = b, !.sort = srt, !.exclude_files = x] :
        n \in 0..2, b \in {None, Some(S_content)}, srt \in BOOLEAN, x \in {None, PatStr(S_a)}}

NextLimit ==
    \/ create_folder(EngineNames)
    \/ create_file(EngineNames)
    \/ seedir(LimitOpts, {NoRaise(tree)})

SpecLimit == Init /\ [][NextLimit]_vars

----------------------------------------------------------------------------
(* Pair item limit, rendered and parsed back *)

PairOpts ==
    {[DefaultOpts EXCEPT !.itemlimit = <<a, b>>] :
        a \in {None, Some(0), Some(1)}, b \in {None, Some(0), Some(1)}}

NextPair ==
    \/ create_folder(EngineNames)
    \/ create_file(EngineNames)
    \/ seedir(PairOpts, {NoRaise(tree)})
    \/ fromstring

SpecPair == Init /\ [][NextPair]_vars

\* C5: after a render with the pair limit (a, b) and no beyond, every
\* container of the tree parsed from the text has at most a containers and at
\* most b leaves as children, for each side of the pair that is not None
C5_PairLimitReparsed ==
    (pc = "parsed" /\ IsNone(error)) =>
        LET h == Val(ptree)
            a == Val(cfg).itemlimit[1]
            b == Val(cfg).itemlimit[2]
        IN \A c \in Reach(h, proot) :
               LET kids == Range(h[c].children)
               IN /\ IsNone(a) \/ Cardinality({x \in kids : h[x].isdir}) <= Val(a)
                  /\ IsNone(b) \/ Cardinality({x \in kids : ~h[x].isdir}) <= Val(b)

----------------------------------------------------------------------------
(* The beyond line that counts the remainder *)

BeyondOpts ==
    {[DefaultOpts EXCEPT !.beyond = Some(S_content), !.itemlimit = n, !.depthlimit = d,
                         !.exclude_folders = xs[1], !.exclude_files = xs[2]] :
        n \in {None, Some(0), Some(1)}, d \in {None, Some(0), Some(1)},
        xs \in {<<None, None>>, <<PatStr(S_a), None>>, <<None, PatStr(S_a)>>}}

NextBeyond ==
    \/ create_folder(EngineNames)
    \/ create_file(EngineNames)
    \/ seedir(BeyondOpts, {NoRaise(tree)})

SpecBeyond == Init /\ [][NextBeyond]_vars

\* '<c> folder(s), <l> file(s)'
CountsText(c, l) ==
    IntStr(c) \o <<" ", "f", "o", "l", "d", "e", "r", "(", "s", ")", ",", " ">>
    \o IntStr(l) \o <<" ", "f", "i", "l", "e", "(", "s", ")">>

\* a container with 3 containers and 3 leaves as children
ThreeAndThree ==
    LET h1 == NewItem(<<FakeItem(S_r, TRUE)>>, <<"a">>, TRUE, Some(1)).h
        h2 == NewItem(h1, <<"x">>, FALSE, Some(1)).h
        h3 == NewItem(h2, <<"b">>, TRUE, Some(1)).h
        h4 == NewItem(h3, <<"y">>, FALSE, Some(1)).h
        h5 == NewItem(h4, <<"c">>, TRUE, Some(1)).h
    IN NewItem(h5, <<"z">>, FALSE, Some(1)).h

\* the child x of a container is not removed by the exclude pattern of its kind
Survives(x) ==
    LET pat == IF tree[x].isdir THEN Val(cfg).exclude_folders ELSE Val(cfg).exclude_files
    IN IsNone(pat) \/ tree[x].name # pat[2]

\* C6: with beyond = content, the line beneath a container that sums up what
\* is not shown reads '<c> folder(s), <l> file(s)' with c and l the numbers of
\* containers and leaves among the children that survive the filter and are
\* cut by the item limit or the depth limit; a container with 3 containers and
\* 3 leaves and itemlimit 0 gives the root line and '3 folder(s), 3 file(s)'
C6_BeyondContent ==
    pc = "rendered" =>
        /\ Rendered
        /\ \A i \in ContainerLines :
               LET kids == Range(tree[lines[i].item].children)
                   shown == Range(EntryItems(lines, i))
                   cut == {x \in kids : Survives(x)} \ shown
                   texts == EntryTexts(lines, i)
               IN /\ \A x \in shown : x \in kids /\ Survives(x)
                  /\ Len(texts) <= 1
                  /\ cut # {} => Len(texts) = 1
                  /\ texts # <<>> =>
                         texts[1] = CountsText(Cardinality({x \in cut : tree[x].isdir}),
                                               Cardinality({x \in cut : ~tree[x].isdir}))
        /\ Call(ThreeAndThree, NoRaise(ThreeAndThree), 1,
                [DefaultOpts EXCEPT !.itemlimit = Some(0), !.beyond = Some(S_content)]).text
               = Some(<<"r", "/", "NL", "ELL", "HORZ">> \o CountsText(3, 3))

\* a render with itemlimit 0 of a root whose children are a container the
\* filter removes, another container and a leaf
C6_Witness ==
    /\ Rendered
    /\ Val(cfg).itemlimit = Some(0)
    /\ Val(cfg).exclude_folders = PatStr(S_a)
    /\ Len(tree) = 4
    /\ Len(tree[1].children) = 3
    /\ \E x \in Range(tree[1].children) : tree[x].isdir /\ tree[x].name = S_a
    /\ EntryTexts(lines, 1) = <<CountsText(1, 1)>>

----------------------------------------------------------------------------
(* The filter decision *)

S_b == <<"b">>

Includes == {None, PatStr(S_a)}

Excludes == {None, PatStr(S_a), PatList(<<S_a, S_b>>)}

\* a mask: the predicate that holds of the objects with an even number
EvenMask(h) == Some({x \in 1..Len(h) : x % 2 = 0})

FilterOpts(h) ==
    {[DefaultOpts EXCEPT !.include_folders = id, !.exclude_folders = xd,
                         !.include_files = if, !.exclude_files = xf] :
        id \in Includes, xd \in Excludes, if \in Includes, xf \in Excludes}
    \cup
    {[DefaultOpts EXCEPT !.mask = EvenMask(h), !.include_folders = id, !.exclude_files = xf] :
        id \in Includes, xf \in Excludes}

NextFilter ==
    \/ create_folder(EngineNames)
    \/ create_file(EngineNames)
    \/ seedir(FilterOpts(tree), {NoRaise(tree)})

SpecFilter == Init /\ [][NextFilter]_vars

\* the patterns of an include or exclude argument
PatSet(p) == IF IsNone(p) THEN {} ELSE IF p[1] = "str" THEN {p[2]} ELSE Range(p[2])

\* the decision C7 states for the child x of a container
KeptByFilter(x) ==
    LET o == Val(cfg)
        inc == PatSet(IF tree[x].isdir THEN o.include_folders ELSE o.include_files)
        exc == PatSet(IF tree[x].isdir THEN o.exclude_folders ELSE o.exclude_files)
    IN IF ~IsNone(o.mask) THEN x \in Val(o.mask)
       ELSE tree[x].name \in inc \/ (inc = {} /\ tree[x].name \notin exc)

\* C7: the children rendered under a container are those the mask holds of
\* when there is a mask, and otherwise those whose name matches an include
\* pattern of their kind, or matches no exclude pattern of their kind when no
\* include pattern of their kind is set
C7_FilterDecision ==
    pc = "rendered" =>
        /\ Rendered
        /\ \A i \in ContainerLines :
               EntryItems(lines, i) = SelectSeq(tree[lines[i].item].children, KeptByFilter)

\* a render without a mask where the leaf a, included and excluded by the
\* leaf patterns, is rendered, and the container a, excluded by the container
\* pattern and not included, is not
C7_Witness ==
    /\ Rendered
    /\ IsNone(Val(cfg).mask)
    /\ Val(cfg).include_files = PatStr(S_a)
    /\ Val(cfg).exclude_files = PatStr(S_a)
    /\ IsNone(Val(cfg).include_folders)
    /\ Val(cfg).exclude_folders = PatStr(S_a)
    /\ \E x \in Range(tree[1].children) :
           ~tree[x].isdir /\ tree[x].name = S_a /\ x \in Range(EntryItems(lines, 1))
    /\ \E c \in Range(EntryItems(lines, 1)) :
           /\ tree[c].isdir
           /\ \E y \in Range(tree[c].children) :
                  tree[y].isdir /\ tree[y].name = S_a /\ \A j \in 1..Len(lines) : lines[j].item # y

----------------------------------------------------------------------------
(* Errors of listdir *)

S_denied == <<" ", "[", "D", "]">>

ErrorOpts ==
    {[DefaultOpts EXCEPT !.acceptable_listdir_errors = a, !.denied_string = S_denied] :
        a \in {None, Some({}), Some({"FakedirError"}), Some({"OSError"})}}

\* the adapters whose listdir raises for at most two containers of h
Raising(h) ==
    {rs \in [1..Len(h) -> {None, Some("FakedirError"), Some("PermissionError")}] :
        /\ \A i \in 1..Len(h) : ~h[i].isdir => IsNone(rs[i])
        /\ Cardinality({i \in 1..Len(h) : ~IsNone(rs[i])}) <= 2}

NextErrors ==
    \/ create_folder(EngineNames)
    \/ create_file(EngineNames)
    \/ seedir(ErrorOpts, Raising(tree))

SpecErrors == Init /\ [][NextErrors]_vars

\* an error of class kind is of one of the acceptable kinds
Acceptable(kind) ==
    LET acc == Val(cfg).acceptable_listdir_errors
    IN ~IsNone(acc) /\ \E k \in Val(acc) : k \in ErrorBases(kind)

\* the containers the render lists with an error that is not acceptable: every
\* container above them is listed without an error
Fatal ==
    {x \in 1..Len(tree) :
        /\ ~IsNone(raises[x]) /\ ~Acceptable(Val(raises[x]))
        /\ \A a \in PathToHead(tree, x) \ {x} : IsNone(raises[a])}

\* s ends with t
EndsWith(s, t) == Len(t) <= Len(s) /\ SubSeq(s, Len(s) - Len(t) + 1, Len(s)) = t

\* C8: a container whose listing raises an acceptable error has exactly one
\* line, ending with the denied string, nothing beneath it and the final token
\* when it is the last child, and the children of every other container are
\* all rendered; a listing error of another kind (of any kind when the
\* acceptable kinds are None or empty) is raised to the caller and no text is
\* returned
C8_ListingErrors ==
    pc = "rendered" =>
        IF Fatal # {}
        THEN IsNone(text) /\ \E x \in Fatal : error = raises[x]
        ELSE /\ Rendered
             /\ Len(Split(Val(text), "NL")) = Len(lines)
             /\ \A i \in 1..Len(lines) :
                    LET x == lines[i].item
                        row == Split(Val(text), "NL")[i]
                    IN IF IsNone(raises[x])
                       THEN /\ lines[i].tag = <<>>
                            /\ tree[x].isdir => EntryItems(lines, i) = tree[x].children
                       ELSE /\ EndsWith(row, tree[x].name \o <<"/">> \o S_denied)
                            /\ Beneath(lines, i) = {}
                            /\ \A j \in 1..Len(lines) : lines[j].item = x => j = i
                            /\ \A p \in 1..Len(tree) :
                                   (tree[p].children # <<>>
                                    /\ tree[p].children[Len(tree[p].children)] = x)
                                   => EndsWith(row, <<"ELL", "HORZ">> \o tree[x].name
                                                    \o <<"/">> \o S_denied)

\* a render where the last child of the root, a container with a child and
\* an earlier sibling, raises PermissionError and OSError is acceptable
C8_Witness ==
    /\ Rendered
    /\ Val(cfg).acceptable_listdir_errors = Some({"OSError"})
    /\ Len(tree[1].children) = 2
    /\ raises[tree[1].children[2]] = Some("PermissionError")
    /\ tree[tree[1].children[2]].children # <<>>
    /\ Len(lines) = 3

----------------------------------------------------------------------------
(* The formatter *)

\* two dicts a formatter returns
EndTokens == [folderend |-> <<"!">>, fileend |-> <<"!">>]

FileEndAndLimit == [fileend |-> <<"?">>, itemlimit |-> Some(1)]

\* the formatters that return each of the two dicts for at most one object of h
Formatters(h) ==
    {f \in [1..Len(h) -> {None, Some(EndTokens), Some(FileEndAndLimit)}] :
        /\ Cardinality({i \in 1..Len(h) : f[i] = Some(EndTokens)}) <= 1
        /\ Cardinality({i \in 1..Len(h) : f[i] = Some(FileEndAndLimit)}) <= 1}

FormatterOpts(h) ==
    {[DefaultOpts EXCEPT !.formatter = Some(f), !.sticky_formatter = st] :
        f \in Formatters(h), st \in BOOLEAN}

NextFormatter ==
    \/ create_folder(EngineNames)
    \/ create_file(EngineNames)
    \/ seedir(FormatterOpts(tree), {NoRaise(tree)})

SpecFormatter == Init /\ [][NextFormatter]_vars

\* the config a with the formatter's result r put over it
Merged(a, r) ==
    IF IsNone(r) THEN a
    ELSE [k \in DOMAIN a |-> IF k \in DOMAIN Val(r) THEN Val(r)[k] ELSE a[k]]

\* the result of the formatter of the last render for object x
Override(x) == Val(Val(cfg).formatter)[x]

\* the config of a node when overrides stay with the node they were computed for
LocalArgs(x) == Merged(CallArgs(Val(cfg)), Override(x))

RECURSIVE InheritedArgs(_)
\* the config of a node when each node starts from the merged config of its parent
InheritedArgs(x) ==
    Merged(IF IsNone(tree[x].parent) THEN CallArgs(Val(cfg))
           ELSE InheritedArgs(Val(tree[x].parent)),
           Override(x))

\* line i is rendered with the config e: its tokens, and for a container the
\* entries listed, sorted, filtered and limited under it
LineUses(i, e) ==
    LET x == lines[i].item
    IN /\ lines[i].start = IF tree[x].isdir THEN e.folderstart ELSE e.filestart
       /\ lines[i].end = IF tree[x].isdir THEN e.folderend ELSE e.fileend
       /\ lines[i].branch \in {<<>>, e.split, e.final}
       /\ tree[x].isdir =>
              EntryItems(lines, i) =
                  apply_itemlimit(tree, FilterStep(tree, e, SortStep(tree, e, tree[x].children)),
                                  e.itemlimit).final

\* C9: without sticky_formatter every line is rendered with the caller's
\* config with only the override of its own node over it
C9_NonStickyLocal ==
    (pc = "rendered" /\ ~Val(cfg).sticky_formatter) =>
        /\ Rendered
        /\ \A i \in 1..Len(lines) : LineUses(i, LocalArgs(lines[i].item))

\* a render without sticky_formatter where a container with an override has
\* a rendered child without one
C9_Witness ==
    /\ Rendered
    /\ ~Val(cfg).sticky_formatter
    /\ \E i \in ContainerLines :
           /\ Override(lines[i].item) = Some(EndTokens)
           /\ \E y \in Range(EntryItems(lines, i)) : IsNone(Override(y))

\* C10: with sticky_formatter every line is rendered with the config its
\* parent was rendered with (the caller's for the root) with the override of
\* its own node over it
C10_StickyInherited ==
    (pc = "rendered" /\ Val(cfg).sticky_formatter) =>
        /\ Rendered
        /\ \A i \in 1..Len(lines) : LineUses(i, InheritedArgs(lines[i].item))

\* a sticky render where the root has one override, a container under it
\* another that replaces one of its options, and that container has a
\* rendered leaf and a later sibling without an override
C10_Witness ==
    /\ Rendered
    /\ Val(cfg).sticky_formatter
    /\ Override(1) = Some(EndTokens)
    /\ Len(tree[1].children) = 2
    /\ Override(tree[1].children[1]) = Some(FileEndAndLimit)
    /\ IsNone(Override(tree[1].children[2]))
    /\ \E j \in 1..Len(lines) :
           /\ tree[lines[j].item].parent = Some(tree[1].children[1])
           /\ lines[j].end = <<"?">>
    /\ Len(lines) = 4

----------------------------------------------------------------------------
(* The calls of the formatter *)

\* the formatters that return the dict EndTokens for at most one object of h,
\* and None or EndTokens for a text (index 0)
TextFormatters(h) ==
    {f \in [0..Len(h) -> {None, Some(EndTokens)}] :
        Cardinality({i \in 1..Len(h) : ~IsNone(f[i])}) <= 1}

VisibilityOpts(h) ==
    {[DefaultOpts EXCEPT !.formatter = Some(f), !.sticky_formatter = st,
                         !.itemlimit = Some(1), !.beyond = Some(S_content),
                         !.exclude_files = xm[1], !.mask = xm[2]] :
        f \in TextFormatters(h), st \in BOOLEAN,
        xm \in {<<None, None>>, <<PatStr(S_a), None>>, <<None, EvenMask(h)>>}}

NextVisibility ==
    \/ create_folder(EngineNames)
    \/ create_file(EngineNames)
    \/ seedir(VisibilityOpts(tree), {NoRaise(tree)})

SpecVisibility == Init /\ [][NextVisibility]_vars

\* the arguments of the calls of the formatter during the last render, in order
CallLog == Concat([i \in 1..Len(lines) |-> lines[i].calls])

\* the items of the lines of the last render that are not texts, in order
LineItems ==
    LET IsItem(l) == ~l.raw
        ls == SelectSeq(lines, IsItem)
    IN [k \in 1..Len(ls) |-> ls[k].item]

\* the config threaded into the entries of the line of object p
Threaded(p) == IF Val(cfg).sticky_formatter THEN InheritedArgs(p) ELSE CallArgs(Val(cfg))

\* C11: the formatter is called exactly once for every node that has a line
\* and for nothing else (no child removed by the filter, the mask or the item
\* limit, no beyond text), and a beyond line has the tokens of the config
\* threaded from its parent
C11_FormatterVisibility ==
    pc = "rendered" =>
        /\ Rendered
        /\ CallLog = LineItems
        /\ \A i, j \in 1..Len(LineItems) : LineItems[i] = LineItems[j] => i = j
        /\ \A i \in ContainerLines :
               LET kept == SelectSeq(tree[lines[i].item].children, KeptByFilter)
                   T == Threaded(lines[i].item)
               IN /\ EntryItems(lines, i) = SubSeq(kept, 1, Min(1, Len(kept)))
                  /\ \A x \in Range(tree[lines[i].item].children) \ Range(EntryItems(lines, i)) :
                         \A y \in Reach(tree, x) : y \notin Range(CallLog)
                  /\ \A j \in Range(Entries(lines, i)) :
                         lines[j].raw =>
                             /\ lines[j].calls = <<>>
                             /\ lines[j].branch = T.final
                             /\ lines[j].start = T.filestart
                             /\ lines[j].end = T.fileend

\* a render where the formatter returns a dict for a text, the first child of
\* the root is removed by the filter, the third by the item limit, and the
\* root has a beyond line
C11_Witness ==
    /\ Rendered
    /\ Val(Val(cfg).formatter)[0] = Some(EndTokens)
    /\ Val(cfg).exclude_files = PatStr(S_a)
    /\ Len(tree[1].children) = 3
    /\ ~tree[tree[1].children[1]].isdir /\ tree[tree[1].children[1]].name = S_a
    /\ EntryItems(lines, 1) = <<tree[1].children[2]>>
    /\ Len(EntryTexts(lines, 1)) = 1
    /\ Len(CallLog) = 2

----------------------------------------------------------------------------
(* The branch token *)

BranchOpts ==
    {[DefaultOpts EXCEPT !.style = st, !.itemlimit = n, !.beyond = b, !.exclude_files = x] :
        st \in {"lines", "dash"}, n \in {None, Some(1)}, b \in {None, Some(S_content)},
        x \in {None, PatStr(S_a)}}

NextBranch ==
    \/ create_folder(EngineNames)
    \/ create_file(EngineNames)
    \/ seedir(BranchOpts, {NoRaise(tree)})

SpecBranch == Init /\ [][NextBranch]_vars

\* the rows of the text of the last render
Rows == Split(Val(text), "NL")

\* row j of the text is its header followed by the token tok
RowBranch(j, tok) ==
    SubSeq(Rows[j], 1, Len(lines[j].header) + Len(tok)) = lines[j].header \o tok

\* C12: the root line has no branch token, and of the entries rendered under
\* a container (children and the beyond line) the last one has the final
\* token and every other one the split token
C12_BranchToken ==
    pc = "rendered" =>
        /\ Rendered
        /\ Len(Rows) = Len(lines)
        /\ lines[1].branch = <<>> /\ lines[1].header = <<>>
        /\ Rows[1] = tree[1].name \o <<"/">>
        /\ \A i \in ContainerLines :
               LET e == Entries(lines, i)
               IN \A k \in 1..Len(e) :
                      LET tok == IF k = Len(e) THEN CallArgs(Val(cfg)).final
                                 ELSE CallArgs(Val(cfg)).split
                      IN lines[e[k]].branch = tok /\ RowBranch(e[k], tok)

\* a render in the style lines where the root has a child with the split
\* token and a beyond line with the final token
C12_Witness ==
    /\ Rendered
    /\ Val(cfg).style = "lines"
    /\ Len(Entries(lines, 1)) = 2
    /\ lines[Entries(lines, 1)[2]].raw
    /\ lines[Entries(lines, 1)[1]].branch = <<"TEE", "HORZ">>
    /\ lines[Entries(lines, 1)[2]].branch = <<"ELL", "HORZ">>

----------------------------------------------------------------------------
(* The tokens of the beyond line *)

PlainOpts ==
    {[DefaultOpts EXCEPT !.style = st, !.anystart = se[1], !.anyend = se[2],
                         !.itemlimit = Some(1), !.depthlimit = d, !.beyond = Some(S_content)] :
        st \in {"lines", "arrow"}, d \in {None, Some(1)},
        se \in {<<None, None>>, <<Some(<<"*">>), None>>, <<None, Some(<<"*">>)>>}}

NextPlain ==
    \/ create_folder(EngineNames)
    \/ create_file(EngineNames)
    \/ seedir(PlainOpts, {NoRaise(tree)})

SpecPlain == Init /\ [][NextPlain]_vars

\* C13: in every style and with every start and end token, a beyond line is
\* its header, the final token and the beyond text, with no start or end token
C13_BeyondPlain ==
    pc = "rendered" =>
        /\ Rendered
        /\ Len(Rows) = Len(lines)
        /\ \A j \in 1..Len(lines) :
               lines[j].raw =>
                   /\ lines[j].start = <<>> /\ lines[j].end = <<>>
                   /\ Rows[j] = lines[j].header \o CallArgs(Val(cfg)).final \o lines[j].name


----------------------------------------------------------------------------
(* The beyond line at the depth limit *)

\* the dict a formatter returns to lift the depth limit
NoDepthLimit == [depthlimit |-> None]

\* the formatters that lift the depth limit for at most one object of h
LiftFormatters(h) ==
    {f \in [1..Len(h) -> {None, Some(NoDepthLimit)}] :
        Cardinality({i \in 1..Len(h) : ~IsNone(f[i])}) <= 1}

SummaryOpts(h) ==
    {[DefaultOpts EXCEPT !.formatter = Some(f), !.sticky_formatter = st,
                         !.depthlimit = Some(d), !.beyond = Some(S_content),
                         !.exclude_files = x] :
        f \in LiftFormatters(h), st \in BOOLEAN, d \in {0, 1},
        x \in {None, PatStr(S_a)}}

NextSummary ==
    \/ create_folder(EngineNames)
    \/ create_file(EngineNames)
    \/ seedir(SummaryOpts(tree), {NoRaise(tree)})

SpecSummary == Init /\ [][NextSummary]_vars

\* the config the line of object x is rendered with
NodeArgs(x) == IF Val(cfg).sticky_formatter THEN InheritedArgs(x) ELSE LocalArgs(x)

\* the container of line i is rendered at or past the depth limit of its config
PastDepthLimit(i) ==
    LET e == NodeArgs(lines[i].item)
    IN ~IsNone(e.depthlimit) /\ lines[i].depth >= Val(e.depthlimit)

\* C14: with beyond set, a container rendered at a depth >= the depth limit
\* has none of its children rendered and exactly one beyond line beneath it,
\* also when it has no (surviving) children
C14_BeyondAtDepthLimit ==
    pc = "rendered" =>
        /\ Rendered
        /\ \A i \in ContainerLines :
               PastDepthLimit(i) =>
                   /\ EntryItems(lines, i) = <<>>
                   /\ Len(EntryTexts(lines, i)) = 1


----------------------------------------------------------------------------
(* Errors of the configuration *)

\* **kwargs of a call: none, a style token, and a keyword that is not one
NoKwargs == [k \in {} |-> <<>>]

FinalKwarg == [k \in {"final"} |-> <<"+", "-">>]

SpacingKwarg == [k \in {"spacing"} |-> <<" ">>]

ConfigOpts ==
    {[DefaultOpts EXCEPT !.style = st, !.indent = n, !.kwargs = kw] :
        st \in {"lines", "missing_style"}, n \in {-1, 0, 2},
        kw \in {NoKwargs, FinalKwarg, SpacingKwarg}}

\* the adapters whose listdir raises PermissionError for at most one container of h
RaisingOnce(h) ==
    {rs \in [1..Len(h) -> {None, Some("PermissionError")}] :
        /\ \A i \in 1..Len(h) : ~h[i].isdir => IsNone(rs[i])
        /\ Cardinality({i \in 1..Len(h) : ~IsNone(rs[i])}) <= 1}

NextConfig ==
    \/ create_folder(EngineNames)
    \/ create_file(EngineNames)
    \/ seedir(ConfigOpts, RaisingOnce(tree))

SpecConfig == Init /\ [][NextConfig]_vars

\* the style of o is not a style, its indent is negative, or one of its
\* keywords is not a style token
BadConfig(o) ==
    \/ o.style \notin {"lines", "spaces", "arrow", "plus", "dash"}
    \/ o.indent < 0
    \/ \E k \in DOMAIN o.kwargs :
           k \notin {"extend", "split", "space", "final",
                     "folderstart", "filestart", "folderend", "fileend"}

----------------------------------------------------------------------------
(* A value of beyond that is not one of the options *)

S_bogus == <<"b", "o", "g", "u", "s">>

PolicyOpts ==
    {[DefaultOpts EXCEPT !.beyond = Some(b), !.itemlimit = n, !.depthlimit = d] :
        b \in {S_bogus, S_ellipsis, <<"_", "x">>},
        n \in {None, Some(1)}, d \in {None, Some(1)}}

NextPolicy ==
    \/ create_folder(EngineNames)
    \/ create_file(EngineNames)
    \/ seedir(PolicyOpts, RaisingOnce(tree))

SpecPolicy == Init /\ [][NextPolicy]_vars

\* beyond is not "ellipsis", "content", "contents" or a text starting with "_"
Unrecognized(beyond) ==
    /\ ToLower(beyond) \notin {S_ellipsis, S_content, S_contents}
    /\ (beyond = <<>> \/ beyond[1] # "_")

\* C16: a call with a value of beyond that is not one of the options raises
\* the configuration error before the traversal, for every tree, whether or
\* not a limit is exceeded: no text is returned and no line is written
C16_BeyondPolicyUpFront ==
    (pc = "rendered" /\ Unrecognized(Val(Val(cfg).beyond))) =>
        /\ error = Some("ValueError")
        /\ IsNone(text)
        /\ lines = <<>>


----------------------------------------------------------------------------
(* Mutations of the tree *)

TreeNames == {<<"a">>, <<"b">>}

\* the FakeDir objects of the heap
Folders == {d \in 1..Len(tree) : tree[d].isdir}

\* the state after a mutation that returned r: a RecursionError leaves the
\* driver at "broken", and no mutation is followed from there
Mutated(r, kind, self, other) ==
    /\ tree' = r.h
    /\ error' = r.err
    /\ op' = [kind |-> kind, self |-> self, other |-> other]
    /\ pc' = IF r.err = Some("RecursionError") THEN "broken" ELSE pc
    /\ UNCHANGED <<cfg, raises, lines, text, ptree, proot, text2, listing, relisting, unfinished, visited>>

\* FakeDir(name, parent=other) or FakeFile(name, parent=other), also through
\* create_folder and create_file, and FakeDir(name) or FakeFile(name)
construct ==
    /\ pc = "build"
    /\ Len(tree) < MaxObjects
    /\ \E name \in TreeNames, folder \in BOOLEAN, other \in 0..Len(tree) :
           \E r \in {NewItem(tree, name, folder, IF other = 0 THEN None ELSE Some(other))} :
               Mutated(r, "construct", IF IsNone(r.err) THEN Len(tree) + 1 ELSE 0, other)

\* self.parent = other for two objects of the heap
reparent ==
    /\ pc = "build"
    /\ \E self \in 1..Len(tree), other \in 1..Len(tree) :
           \E r \in {parent_setter(tree, self, Some(other))} :
               Mutated(r, "reparent", self, other)

\* self.parent = None
detach ==
    /\ pc = "build"
    /\ \E self \in 1..Len(tree) :
           \E r \in {parent_setter(tree, self, None)} :
               Mutated(r, "detach", self, 0)

\* d.delete(name), and d.delete(d.listdir())
delete ==
    /\ pc = "build"
    /\ \E d \in Folders :
           \/ \E name \in TreeNames :
                  \E r \in {delete_target(tree, d, name)} : Mutated(r, "delete", d, 0)
           \/ \E r \in {delete_listdir(tree, d)} : Mutated(r, "delete", d, 0)

\* d.trim(depthlimit)
trim ==
    /\ pc = "build"
    /\ \E d \in Folders, depthlimit \in -1..2 :
           \E r \in {trim_items(tree, d, depthlimit)} : Mutated(r, "trim", d, 0)

NextTree == construct \/ reparent \/ detach \/ delete \/ trim

SpecTree == Init /\ [][NextTree]_vars

\* C17: after every sequence of constructions, reparents, detaches, deletes
\* and trims no container has two children with equal names
C17_UniqueSiblingNames ==
    \A d \in 1..Len(tree) :
        \A i, j \in 1..Len(tree[d].children) :
            tree[tree[d].children[i]].name = tree[tree[d].children[j]].name => i = j

\* a reparent was rejected because the container it names holds another
\* object with the name of self
C17_Witness ==
    /\ op.kind = "reparent"
    /\ error = Some("FakedirError")
    /\ tree[op.other].isdir
    /\ \E c \in Range(tree[op.other].children) :
           c # op.self /\ tree[c].name = tree[op.self].name


\* the setter of object self rejects other: other is not a container, or a
\* child of other has the name of self
Rejects(h, self, other) ==
    \/ ~h[other].isdir
    \/ \E c \in Range(h[other].children) : h[c].name = h[self].name

\* the children of the parent of x in h (none for an object without parent)
SiblingsOf(h, x) == IF IsNone(h[x].parent) THEN <<>> ELSE h[Val(h[x].parent)].children

\* a step keeps what a rejected parent assignment has to keep
RejectedStep ==
    /\ (op'.kind = "reparent" /\ Rejects(tree, op'.self, op'.other)) =>
           /\ error' = Some("FakedirError")
           /\ tree'[op'.self].parent = tree[op'.self].parent
           /\ tree'[op'.self].depth = tree[op'.self].depth
           /\ SiblingsOf(tree', op'.self) = SiblingsOf(tree, op'.self)
           /\ tree'[op'.other].children = tree[op'.other].children
           /\ tree' = tree
    /\ (op'.kind = "construct" /\ ~IsNone(error')) =>
           /\ error' = Some("FakedirError")
           /\ tree' = tree

\* C18: a parent assignment that the setter rejects raises the error, and
\* afterwards the object has the parent and the depth it had, the children of
\* that parent and of the rejected target are as before, and so is the rest
\* of the tree; a rejected construction leaves the tree as it was
C18_RejectedUnchanged == [][RejectedStep]_vars

\* a reparent of an object of depth 1 to another container was rejected
C18_Witness ==
    /\ op.kind = "reparent"
    /\ error = Some("FakedirError")
    /\ tree[op.self].depth = 1
    /\ tree[op.self].parent # Some(op.other)
    /\ tree[op.other].isdir


RECURSIVE Climb(_, _, _)
\* following the parent links from x reaches an object without parent in at most n steps
Climb(h, x, n) ==
    IF IsNone(h[x].parent) THEN TRUE
    ELSE IF n = 0 THEN FALSE
    ELSE Climb(h, Val(h[x].parent), n - 1)

\* the number of occurrences of x in the sequence s
Count(s, x) == Cardinality({i \in 1..Len(s) : s[i] = x})

\* C19: after every sequence of constructions and parent assignments, also
\* of a container to itself or to one of its descendants, the parent links
\* from every object reach a root, and every object occurs once in the
\* children of its parent and in the children of no other object
C19_AcyclicSingleOwner ==
    \A x \in 1..Len(tree) :
        /\ Climb(tree, x, Len(tree))
        /\ \A d \in 1..Len(tree) :
               Count(tree[d].children, x) = IF tree[x].parent = Some(d) THEN 1 ELSE 0


\* C20: after every sequence of constructions, reparents and detaches the
\* depth of every object is 0 when it has no parent and the depth of its
\* parent plus 1 otherwise
C20_DerivedDepth ==
    \A x \in 1..Len(tree) :
        tree[x].depth = IF IsNone(tree[x].parent) THEN 0
                        ELSE tree[Val(tree[x].parent)].depth + 1

\* the depths are derived as long as no mutation has ended with a RecursionError
DerivedDepthUnbroken == pc = "build" => C20_DerivedDepth

\* a container with a child was given another parent or none, and its depth changed
DerivedDepthMoved ==
    /\ op.kind \in {"reparent", "detach"}
    /\ IsNone(error)
    /\ tree[op.self].children # <<>>
    /\ tree[op.self].depth = 0
    /\ Len(tree) = MaxObjects


----------------------------------------------------------------------------
(* Sorting a listing twice *)

\* names with equal natsort keys (a2, a02), a name natsort puts after them
\* (a10), and names of equal length
SortNames == {<<"a", "2">>, <<"a", "0", "2">>, <<"a", "1", "0">>, <<"b", "1">>}

SortOpts ==
    {[DefaultOpts EXCEPT !.first = f, !.sort_reverse = rv, !.sort_key = k] :
        f \in {None, Some("folders"), Some("files")}, rv \in BOOLEAN,
        k \in {None, Some("len")}}

\* L = sort_dir(items, **o) for the children of the head, and sort_dir(L, **o)
sort(Options) ==
    /\ pc = "build"
    /\ \E o \in Options :
           \E L \in {sort_dir(tree, listdir(tree, 1), o.first, o.sort_reverse, o.sort_key)} :
               /\ cfg' = Some(o)
               /\ listing' = L
               /\ relisting' = sort_dir(tree, L, o.first, o.sort_reverse, o.sort_key)
    /\ pc' = "sorted"
    /\ UNCHANGED <<tree, raises, lines, text, error, ptree, proot, text2, op, unfinished, visited>>

NextSort ==
    \/ create_folder(SortNames)
    \/ create_file(SortNames)
    \/ sort(SortOpts)

SpecSort == Init /\ [][NextSort]_vars

\* C21: sort_dir of a listing that sort_dir returned, under the same key,
\* direction and first, is that listing
C21_SortIdempotent == pc = "sorted" => relisting = listing

\* a sort in reverse by a key that is equal for two children of different
\* kinds, which changed the order of the children
C21_Witness ==
    /\ pc = "sorted"
    /\ Val(cfg).sort_reverse
    /\ listing # tree[1].children
    /\ \E i, j \in 1..Len(listing) :
           /\ i < j
           /\ tree[listing[i]].isdir # tree[listing[j]].isdir
           /\ SortKey(tree, listing[i], Val(cfg).sort_key)
                  = SortKey(tree, listing[j], Val(cfg).sort_key)
    /\ Len(listing) = 3


----------------------------------------------------------------------------
(* Diagrams that no render wrote *)

\* the name of line number i of a diagram
Letters == <<"a", "b", "c", "d", "e", "f">>

\* a line: a header of k spaces, the name, and "/" when sl
DiagramLine(i, k, sl) == Repeat(" ", k) \o <<Letters[i]>> \o (IF sl THEN <<"/">> ELSE <<>>)

\* the diagram of n lines with the headers ks and the trailing separators sl
DiagramText(n, ks, sl) ==
    Concat([i \in 1..n |->
               DiagramLine(i, ks[i], sl[i]) \o (IF i < n THEN <<"NL">> ELSE <<>>)])

\* s = a diagram of up to MaxLines lines with distinct names and any headers
diagram ==
    /\ pc = "build"
    /\ \E n \in 1..MaxLines :
           \E ks \in [1..n -> 0..MaxIndent], sl \in [1..n -> BOOLEAN] :
               text' = Some(DiagramText(n, ks, sl))
    /\ pc' = "rendered"
    /\ UNCHANGED <<tree, cfg, raises, lines, error, ptree, proot, text2, op, listing, relisting, unfinished, visited>>

NextParse == diagram \/ fromstring

SpecParse == Init /\ [][NextParse]_vars

\* the names and header lengths fakedir_fromstring reads from the diagram
Recs == ParseLines(Split(Val(text), "NL"))

\* C22: parsing a diagram with a recognizable line returns a tree and raises
\* nothing, however its lines are indented
C22_ParseNeverFails == pc = "parsed" => (IsNone(error) /\ proot # 0)


\* the diagram was parsed into a tree
Parsed == pc = "parsed" /\ IsNone(error) /\ proot # 0

\* the object made for line i of a parsed diagram: the objects are made in
\* the order of the lines, after the superparent when there is one
NodeOf(i) == i + (Len(Val(ptree)) - Len(Recs))

\* the lines before line i with a header shorter than that of line i
Shallower(i) == {j \in 1..(i - 1) : Recs[j].depth < Recs[i].depth}

\* the last of the lines of the set S
Nearest(S) == CHOOSE j \in S : \A m \in S : m <= j

\* C29: in a parsed diagram the parent of the node of a line that has an
\* earlier line with a shorter header is the node of the nearest such line
C29_ParentIsNearestShallower ==
    Parsed =>
        \A i \in 1..Len(Recs) :
            Shallower(i) # {} =>
                Val(ptree)[NodeOf(i)].parent = Some(NodeOf(Nearest(Shallower(i))))

\* line i of the diagram ends in a separator
TrailingSeparator(i) ==
    \E line \in {Split(Val(text), "NL")[i]} : line[Len(line)] \in Separators

\* the line after line i has a longer header
NextDeeper(i) == i < Len(Recs) /\ Recs[i + 1].depth > Recs[i].depth

\* C28: the node of a line of a parsed diagram is a container exactly when the
\* line ends in a trailing separator or the next line has a longer header
C28_ContainerInference ==
    Parsed =>
        \A i \in 1..Len(Recs) :
            Val(ptree)[NodeOf(i)].isdir <=> (TrailingSeparator(i) \/ NextDeeper(i))

----------------------------------------------------------------------------
(* The columns of a header *)

HeaderOpts ==
    {[DefaultOpts EXCEPT !.style = st, !.indent = w, !.itemlimit = n, !.depthlimit = d,
                         !.beyond = b] :
        st \in {"lines", "dash"}, w \in {2, 3}, n \in {None, Some(1)},
        d \in {None, Some(2)}, b \in {None, Some(S_content)}}

NextHeader ==
    \/ create_folder(EngineNames)
    \/ create_file(EngineNames)
    \/ seedir(HeaderOpts, {NoRaise(tree)})

SpecHeader == Init /\ [][NextHeader]_vars

\* the line of the ancestor at depth q of line i (line i itself at its own depth)
AncestorLine(i, q) == CHOOSE j \in 1..i : lines[j].depth = q /\ \A k \in (j + 1)..i : lines[k].depth > q

\* line j is the last entry of its parent: no entry of the same parent follows it
LastEntry(j) ==
    ~\E k \in (j + 1)..Len(lines) :
        /\ lines[k].depth = lines[j].depth
        /\ \A m \in (j + 1)..(k - 1) : lines[m].depth > lines[j].depth

\* column p of the header of line i, for columns of the width w
Column(i, p, w) == SubSeq(lines[i].header, p * w + 1, (p + 1) * w)

\* the greatest depth of the list I, 0 for the empty list
MaxDepth(I) == IF I = <<>> THEN 0 ELSE CHOOSE m \in Range(I) : \A n \in Range(I) : n <= m

----------------------------------------------------------------------------
(* The discipline of INCOMPLETE *)

\* INCOMPLETE after line i was written and before the next line: without the
\* depth of the parent when line i is its last entry, and with the depth of
\* line i when the next line is an entry of line i
After(i) ==
    LET d == lines[i].depth
        popped == IF d >= 1 /\ LastEntry(i) THEN RemoveFirst(lines[i].inc, d - 1)
                  ELSE lines[i].inc
    IN IF i < Len(lines) /\ lines[i + 1].depth > d THEN Append(popped, d) ELSE popped

\* C24: INCOMPLETE is empty at the root line; depth d is appended when a
\* container at depth d starts on its first entry and removed when the last
\* entry of that container (a child or the beyond line) is written, and at no
\* other time; INCOMPLETE never holds a depth twice, holds only depths smaller
\* than d when a line at depth d is written, and is empty when the render returns
C24_IncompleteDiscipline ==
    Rendered =>
        /\ lines[1].inc = <<>>
        /\ \A i \in 1..(Len(lines) - 1) : lines[i + 1].inc = After(i)
        /\ unfinished = After(Len(lines))
        /\ unfinished = <<>>
        /\ \A i \in 1..Len(lines) :
               /\ \A m, n \in 1..Len(lines[i].inc) :
                      lines[i].inc[m] = lines[i].inc[n] => m = n
               /\ \A m \in 1..Len(lines[i].inc) : lines[i].inc[m] < lines[i].depth
               /\ lines[i].depth >= 1 => (lines[i].depth - 1) \in Range(lines[i].inc)

\* a render where depth 1 is removed from INCOMPLETE by the last child of a
\* container while depth 0 stays, and depth 0 is then removed by the beyond
\* line of the root
C24_Witness ==
    /\ Rendered
    /\ \E i \in 1..(Len(lines) - 1) :
           /\ lines[i].inc = <<0, 1>>
           /\ LastEntry(i)
           /\ lines[i + 1].raw
           /\ lines[i + 1].depth = 1
           /\ lines[i + 1].inc = <<0>>

----------------------------------------------------------------------------
(* The formatter and the children a filter drops *)

\* the children of the container of line i
Candidates(i) == tree[lines[i].item].children

\* how often x occurs in the list L
Occurrences(L, x) == Cardinality({k \in 1..Len(L) : L[k] = x})

\* the children of the container of line i that the filter keeps and the item
\* limit does not cut, in the order of the listing
Shown(i) == apply_itemlimit(tree, SelectSeq(Candidates(i), KeptByFilter), Val(cfg).itemlimit).final

\* the calls of the formatter made for the entries of line i, in order
EntryCalls(i) == Concat([k \in 1..Len(Entries(lines, i)) |-> lines[Entries(lines, i)[k]].calls])

\* C25 as stated: the formatter is called once with every child of the
\* listing of an expanded container, also with the children the filter drops
C25_CalledBeforeFilter ==
    Rendered =>
        \A i \in ContainerLines :
            \A x \in Range(Candidates(i)) : Occurrences(CallLog, x) = 1

\* C25: the formatter is called once with each child of an expanded container
\* that the filter (patterns or mask) keeps and the item limit does not cut, in
\* the order of the lines, and with no other child of the container
C25_CalledAfterFilter ==
    Rendered =>
        \A i \in ContainerLines :
            /\ EntryCalls(i) = Shown(i)
            /\ \A x \in Range(Candidates(i)) :
                   Occurrences(CallLog, x) = IF x \in Range(Shown(i)) THEN 1 ELSE 0

\* a render under a mask that drops the first child of a container and keeps
\* the second, where of the two the formatter was called with the second only
C25_Witness ==
    /\ Rendered
    /\ ~IsNone(Val(cfg).mask)
    /\ \E i \in ContainerLines :
           /\ Len(Candidates(i)) >= 2
           /\ ~KeptByFilter(Candidates(i)[1])
           /\ KeptByFilter(Candidates(i)[2])
           /\ EntryCalls(i) = <<Candidates(i)[2]>>
           /\ Candidates(i)[1] \notin Range(CallLog)

----------------------------------------------------------------------------
(* Listing a container and the limits *)

ListingOpts ==
    {[DefaultOpts EXCEPT !.depthlimit = d, !.itemlimit = n, !.beyond = b,
                         !.acceptable_listdir_errors = a, !.denied_string = S_denied] :
        d \in {None, Some(1)}, n \in {None, Some(0)}, b \in {None, Some(S_content)},
        a \in {None, Some({"OSError"})}}

NextListing ==
    \/ create_folder(EngineNames)
    \/ create_file(EngineNames)
    \/ seedir(ListingOpts, RaisingOnce(tree))

SpecListing == Init /\ [][NextListing]_vars

\* the containers whose listing the last render asked for, in order
ListLog == Concat([i \in 1..Len(lines) |-> lines[i].listed])

\* the container x has a line unless a listing fails: it is the root, or there
\* is no item limit, it is not deeper than the depth limit, and no container
\* above it fails to list
HasLine(x) ==
    /\ tree[x].isdir
    /\ \/ x = 1
       \/ /\ IsNone(Val(cfg).itemlimit)
          /\ IsNone(Val(cfg).depthlimit) \/ tree[x].depth <= Val(Val(cfg).depthlimit)
          /\ \A a \in PathToHead(tree, x) \ {x} : IsNone(raises[a])

\* the containers with a line whose listing fails with an error that is not acceptable
Aborting == {x \in 1..Len(tree) : HasLine(x) /\ ~IsNone(raises[x]) /\ ~Acceptable(Val(raises[x]))}

\* C26: every container with a line is listed exactly once, also when it is at
\* the depth limit or under itemlimit 0 and shows no children: its line has the
\* denied string exactly when its listing fails (with an acceptable error), and
\* a listing of such a container that fails with another error ends the render
\* with that error
C26_ListedBeforeLimits ==
    pc = "rendered" =>
        IF Aborting # {}
        THEN IsNone(text) /\ \E x \in Aborting : error = raises[x]
        ELSE /\ Rendered
             /\ \A x \in 1..Len(tree) :
                    HasLine(x) <=> \E i \in ContainerLines : lines[i].item = x
             /\ \A i \in ContainerLines :
                    /\ lines[i].listed = <<lines[i].item>>
                    /\ Occurrences(ListLog, lines[i].item) = 1
                    /\ lines[i].tag = IF IsNone(raises[lines[i].item]) THEN <<>> ELSE S_denied

\* a render with depth limit 1 and no beyond where a container at depth 1 that
\* has a child fails to list with an acceptable error and gets the denied string
C26_Witness ==
    /\ Rendered
    /\ Val(cfg).depthlimit = Some(1) /\ IsNone(Val(cfg).beyond) /\ IsNone(Val(cfg).itemlimit)
    /\ \E i \in ContainerLines :
           /\ lines[i].depth = 1
           /\ tree[lines[i].item].children # <<>>
           /\ raises[lines[i].item] = Some("PermissionError")
           /\ lines[i].tag = S_denied

----------------------------------------------------------------------------
(* The tree after a render *)

UnchangedOpts ==
    {[DefaultOpts EXCEPT !.sort = srt[1], !.sort_reverse = srt[2], !.first = srt[3],
                         !.exclude_files = x, !.itemlimit = n, !.depthlimit = db[1],
                         !.beyond = db[2]] :
        srt \in {<<FALSE, FALSE, None>>, <<TRUE, FALSE, None>>, <<TRUE, TRUE, Some("files")>>},
        x \in {None, PatStr(S_a)},
        n \in {None, Some(1), <<Some(1), None>>},
        db \in {<<None, None>>, <<None, Some(S_content)>>, <<Some(1), Some(S_content)>>}}

NextUnchanged ==
    \/ create_folder(EngineNames)
    \/ create_file(EngineNames)
    \/ seedir(UnchangedOpts, {NoRaise(tree)})

SpecUnchanged == Init /\ [][NextUnchanged]_vars

\* a render leaves every object as it was: its name, its kind, its parent, its
\* depth and its list of children
RenderStep == (pc = "build" /\ pc' = "rendered") => tree' = tree

----------------------------------------------------------------------------
(* A walk with a visitor *)

\* C.walk_apply(add_0) for a FakeDir C of the tree
walk_apply ==
    /\ pc = "build"
    /\ \E C \in {x \in 1..Len(tree) : tree[x].isdir} :
           \E r \in {walk_add_0(tree, C, 1)} :
               /\ tree' = r.h
               /\ visited' = r.log
               /\ op' = [kind |-> "walk_apply", self |-> C, other |-> 0]
    /\ pc' = "walked"
    /\ UNCHANGED <<cfg, raises, lines, text, error, ptree, proot, text2, listing, relisting, unfinished>>

NextWalk ==
    \/ create_folder(EngineNames)
    \/ create_file(EngineNames)
    \/ walk_apply

SpecWalk == Init /\ [][NextWalk]_vars

\* the place of x in the list of visits (0 when x was not visited)
VisitOf(x) == IF \E k \in 1..Len(visited) : visited[k] = x
              THEN CHOOSE k \in 1..Len(visited) : visited[k] = x ELSE 0

\* the proper descendants of x
Below(x) == Reach(tree, x) \ {x}

\* C30: C.walk_apply(f) calls f once with every proper descendant of C and
\* not with C (add_0 has added ' 0' once to the one-character name of each
\* descendant and to no other name); a node is visited before its children,
\* the children of a node in the order of its list of children, and all that
\* is below a child before the next child
C30_PreOrderVisit ==
    pc = "walked" =>
        /\ Range(visited) = Below(op.self)
        /\ \A m, n \in 1..Len(visited) : visited[m] = visited[n] => m = n
        /\ \A x \in Below(op.self) :
               /\ \A y \in Below(x) : VisitOf(x) < VisitOf(y)
               /\ Len(tree[x].name) = 3
        /\ \A p \in Below(op.self) \cup {op.self} :
               \A i, j \in 1..Len(tree[p].children) :
                   i < j =>
                       /\ VisitOf(tree[p].children[i]) < VisitOf(tree[p].children[j])
                       /\ \A y \in Below(tree[p].children[i]) :
                              VisitOf(y) < VisitOf(tree[p].children[j])
        /\ \A x \in (1..Len(tree)) \ Below(op.self) : Len(tree[x].name) = 1

\* a walk from a container with two children, the first of them a container
\* with a child, which is visited between the two
C30_Witness ==
    /\ pc = "walked"
    /\ Len(tree[op.self].children) = 2
    /\ tree[tree[op.self].children[1]].children # <<>>
    /\ visited = <<tree[op.self].children[1],
                   tree[tree[op.self].children[1]].children[1],
                   tree[op.self].children[2]>>

============================================================================
